---------------------------- MODULE Spec2Model ----------------------------
(***************************************************************************)
(* Model of the streaming chat adapters, the chat store and the license    *)
(* manager of querystudio:                                                 *)
(*   src/src-tauri/src/ai/providers/claude.rs   (Anthropic-style)          *)
(*   src/src-tauri/src/ai/providers/gemini.rs   (Generative-style)         *)
(*   src/crates/ai/src/providers/opencode.rs    (local orchestrator)       *)
(*   src/src-tauri/src/chat_storage.rs          (chat history on disk)     *)
(*   src/src-tauri/src/license.rs               (LicenseManager)           *)
(*                                                                         *)
(* Spec     one call of chat or chat_stream of one adapter up to its       *)
(*          return: the conversation passed in, the vendor request built   *)
(*          from it, the HTTP round trips of the call, the result, and     *)
(*          for chat_stream the channel and the spawn of the task.         *)
(* SpecTask the spawned task of a chat_stream that returned Ok(rx): it     *)
(*          interprets the decoded data lines / frames and sends chunks    *)
(*          on the channel until it returns or the byte stream ends.       *)
(* SpecSse  the byte level of the spawned task: byte chunks arrive, are    *)
(*          converted with from_utf8_lossy, appended to the buffer, and    *)
(*          complete frames are cut off at each blank line.                *)
(* SpecChan the spawned task together with the bounded channel and the    *)
(*          consumer: chunks wait in the task until the channel has room,  *)
(*          the consumer receives them in order or drops the receiver.     *)
(* SpecLines the decoding of one event block (the lines between two blank  *)
(*          lines) into the payloads each adapter hands to its JSON parser.*)
(* SpecStore the commands of chat_storage.rs on a chats directory and a    *)
(*          legacy history file: set_chat_history and get_chat_history.    *)
(* SpecChanLive SpecChan under a scheduler that lets the task and the      *)
(*          consumer run and a byte stream that ends.                      *)
(* SpecAtomic one call of write_sessions_and_index, one file operation at  *)
(*          a time, with the kill of the process as a step.                *)
(* SpecWriters two such calls at the same time on one directory.           *)
(* SpecLicense activate, verify, deactivate and clear of LicenseManager    *)
(*          against every reply of the license server.                     *)
(***************************************************************************)
EXTENDS Integers, Sequences, FiniteSets, TLC

VARIABLES
    provider,            \* "claude" | "gemini" | "opencode"
    mode,                \* which specification runs: "chat", "chat_stream", "sse", ...
    pc,                  \* position inside chat / chat_stream
    http,                \* the HTTP round trips made so far, in order
    result,              \* what the call returned ([tag |-> "none"] before)
    chan,                \* "none" | "open" | "closed": mpsc::channel(100)
    task,                \* "none" | "running" | "ended": the spawned task
    stream,              \* "none" | "open" | "error" | "ended": the byte stream
                         \* of the response as stream.next() last showed it
    frames,              \* the stream items the task has taken so far
    sent,                \* the chunks given to tx.send, in order
    current_tool_id,     \* claude.rs: current_tool_id
    tool_call_index,     \* gemini.rs: tool_call_index
    pending_tool_calls,  \* gemini.rs: pending_tool_calls (the ids)
    session_id,          \* opencode.rs: session_id / target_session_id
    opencode_tools,      \* opencode.rs: result of fetch_tool_ids
    bytes,               \* SpecSse: the whole byte stream of the response
    delivered,           \* SpecSse: how many bytes the task has been given
    buffer,              \* SpecSse: buffer (decoded characters)
    decoded,             \* SpecSse: the frames cut off the buffer so far
    queue,               \* SpecChan: the chunks pending in the channel
    received,            \* SpecChan: the chunks rx.recv() gave the consumer
    rx,                  \* SpecChan: "none" | "held" | "dropped": the receiver
    outbox,              \* SpecChan: the chunks the handler of the current line
                         \* has still to send, and whether it then returns
    lost,                \* SpecChan: the chunk whose send last returned Err,
                         \* as a list of at most one
    messages,            \* the conversation the caller passed in
    request,             \* the vendor request built from it
    event_block,         \* SpecLines: the lines of the event block cut off
    parsed,              \* SpecLines: the payloads given to the JSON parser
    chat_dir,            \* SpecStore: the files of the chats directory
    legacy_history,      \* SpecStore: the content of chat-history.json
    store_call,          \* SpecStore: the command last run, and its sessions
    store_result,        \* SpecStore: the sessions that command returned
    writers,             \* SpecWriters: the calls of write_sessions_and_index
                         \* under way, each with its locals and its position
    license_state,       \* SpecLicense: LicenseManager.state
    license_file         \* SpecLicense: the content of the file at storage_path

callVars == <<provider, mode, pc, http, result, chan, task, session_id, opencode_tools>>
taskVars == <<frames, sent, current_tool_id, tool_call_index, pending_tool_calls>>
sseVars  == <<bytes, delivered, buffer, decoded>>
chanVars == <<queue, received, rx, outbox, lost>>
reqVars  == <<messages, request>>
lineVars == <<event_block, parsed>>
licenseVars == <<license_state, license_file>>
storeVars == <<chat_dir, legacy_history, store_call, store_result, writers, licenseVars>>
vars     == <<callVars, stream, taskVars, sseVars, chanVars, reqVars, lineVars, storeVars>>

\* Bounds of the model: how many data lines (frames) a task is given, and
\* how long the byte stream of SpecSse is.
MaxClaudeLines == 3
MaxGeminiLines == 2
MaxOcFrames    == 2
MaxBytes       == 5

\* Option::None, for every optional field.
None == "None"

Last(s) == s[Len(s)]

-----------------------------------------------------------------------------
(* StreamChunk                                                             *)

Content(t) ==
    [kind |-> "Content", id |-> None, name |-> None, text |-> t, finish_reason |-> None]
ToolCallStart(i, n) ==
    [kind |-> "ToolCallStart", id |-> i, name |-> n, text |-> None, finish_reason |-> None]
ToolCallDelta(i, a) ==
    [kind |-> "ToolCallDelta", id |-> i, name |-> None, text |-> a, finish_reason |-> None]
Done(r) ==
    [kind |-> "Done", id |-> None, name |-> None, text |-> None, finish_reason |-> r]
Error(m) ==
    [kind |-> "Error", id |-> None, name |-> None, text |-> m, finish_reason |-> None]

\* What one step of a stream task does: the chunks it sends, and whether it
\* returns from the task.
Step(chunks, ret) == [chunks |-> chunks, return |-> ret]

-----------------------------------------------------------------------------
(* Anthropic-style adapter: the stream events                              *)

\* index: None of AnthropicStreamEvent (index is Option<usize>).
NoIndex == -1

\* AnthropicStreamEvent as deserialized from one "data: " line; valid = FALSE
\* is a line serde_json::from_str rejects.
ClaudeEvent(v, ty, cb, i, d, t, sr, e) ==
    [valid |-> v, event_type |-> ty, index |-> NoIndex, content_block |-> cb, id |-> i,
     delta |-> d, text |-> t, stop_reason |-> sr, error |-> e]
\* The event with "index": ix.
ClaudeAtIndex(ev, ix) == [ev EXCEPT !.index = ix]

ClaudeInvalid == ClaudeEvent(FALSE, None, None, None, None, None, None, None)
ClaudeBlockStart(cb, i) ==
    ClaudeEvent(TRUE, "content_block_start", cb, i, None, None, None, None)
ClaudeBlockDelta(d, t) ==
    ClaudeEvent(TRUE, "content_block_delta", None, None, d, t, None, None)
ClaudeBlockStop ==
    ClaudeEvent(TRUE, "content_block_stop", None, None, None, None, None, None)
ClaudeMessageDelta(sr) ==
    ClaudeEvent(TRUE, "message_delta", None, None, None, None, sr, None)
ClaudeMessageStop ==
    ClaudeEvent(TRUE, "message_stop", None, None, None, None, None, None)
ClaudeError(e) ==
    ClaudeEvent(TRUE, "error", None, None, None, None, None, e)
ClaudePing ==
    ClaudeEvent(TRUE, "ping", None, None, None, None, None, None)

ClaudeEvents ==
    {ClaudeInvalid, ClaudeBlockStop, ClaudeMessageStop, ClaudePing}
    \cup {ClaudeBlockStart(None, None), ClaudeBlockStart("text", None),
          ClaudeAtIndex(ClaudeBlockStart("tool_use", "toolu_1"), 0),
          ClaudeAtIndex(ClaudeBlockStart("tool_use", "toolu_2"), 1)}
    \cup {ClaudeBlockDelta(None, None), ClaudeBlockDelta("unknown", None),
          ClaudeBlockDelta("text_delta", ""), ClaudeBlockDelta("text_delta", "4"),
          ClaudeAtIndex(ClaudeBlockDelta("input_json_delta", "{"), 0),
          ClaudeAtIndex(ClaudeBlockDelta("input_json_delta", "{"), 1)}
    \cup {ClaudeMessageDelta(sr) : sr \in {None, "end_turn", "tool_use", "max_tokens"}}
    \cup {ClaudeError(None), ClaudeError("overloaded")}

\* parse_finish_reason of claude.rs
ClaudeParseFinishReason(reason) ==
    CASE reason = "end_turn"      -> "Stop"
      [] reason = "stop_sequence" -> "Stop"
      [] reason = "tool_use"      -> "ToolCalls"
      [] reason = "max_tokens"    -> "Length"
      [] OTHER                    -> "Unknown"

\* ClaudeNextToolId without the clearing by content_block_stop.
ClaudeNextToolIdNoClear(ev, cur) ==
    IF ev.valid /\ ev.event_type = "content_block_start" /\ ev.content_block = "tool_use"
    THEN ev.id ELSE cur

\* The new value of current_tool_id after the event.
ClaudeNextToolId(ev, cur) ==
    IF ~ev.valid THEN cur
    ELSE IF ev.event_type = "content_block_start" /\ ev.content_block = "tool_use"
         THEN ev.id
    ELSE IF ev.event_type = "content_block_stop" THEN None
    ELSE cur

\* SkipLine that gives the parse error up as an Error chunk and returns.
SkipLineAbort == Step(<<Error("parse error")>>, TRUE)

\* What a line that does not deserialize does: nothing, the loop goes on.
SkipLine == Step(<<>>, FALSE)

\* The chunks sent for one data line, and whether the task returns.
ClaudeInterpret(ev, cur) ==
    IF ~ev.valid THEN SkipLine
    ELSE CASE ev.event_type = "content_block_start" ->
                IF ev.content_block = "tool_use"
                THEN Step(<<ToolCallStart(ev.id, "query")>>, FALSE)
                ELSE Step(<<>>, FALSE)
           [] ev.event_type = "content_block_delta" ->
                IF ev.delta = "text_delta" /\ ev.text # ""
                THEN Step(<<Content(ev.text)>>, FALSE)
                ELSE IF ev.delta = "input_json_delta" /\ cur # None
                THEN Step(<<ToolCallDelta(cur, ev.text)>>, FALSE)
                ELSE Step(<<>>, FALSE)
           [] ev.event_type = "content_block_stop" -> Step(<<>>, FALSE)
           [] ev.event_type = "message_delta" ->
                IF ev.stop_reason # None
                THEN Step(<<Done(ClaudeParseFinishReason(ev.stop_reason))>>, FALSE)
                ELSE Step(<<>>, FALSE)
           [] ev.event_type = "message_stop" -> Step(<<Done("Stop")>>, TRUE)
           [] ev.event_type = "error" ->
                IF ev.error # None
                THEN Step(<<Error(ev.error)>>, TRUE)
                ELSE Step(<<>>, FALSE)
           [] OTHER -> Step(<<>>, FALSE)

-----------------------------------------------------------------------------
(* Generative-style adapter: the stream responses                          *)

\* CallId that ignores tool_call_index.
CallIdConstant(n) == "call_0"

\* format!("call_{}", tool_call_index)
CallId(n) == "call_" \o ToString(n)

\* GeminiPart: text and function_call are both optional.
GeminiPart(t, fc) == [text |-> t, function_call |-> fc, args |-> "{\"sql\":\"1\"}"]
\* GeminiCandidate; has_content = FALSE is content: None.
GeminiCandidate(hc, ps, fr) == [has_content |-> hc, parts |-> ps, finish_reason |-> fr]
\* GeminiResponse as deserialized from one "data: " line; has_candidates =
\* FALSE is candidates: None.
GeminiResponse(v, hcs, cs, e) ==
    [valid |-> v, has_candidates |-> hcs, candidates |-> cs, error |-> e]

GeminiInvalid == GeminiResponse(FALSE, FALSE, <<>>, None)

GeminiPartLists ==
    {<<GeminiPart("Hel", None)>>, <<GeminiPart("Hello", None)>>, <<GeminiPart("", None)>>,
     <<GeminiPart(None, "query")>>, <<GeminiPart("Hel", "query")>>,
     <<GeminiPart("Hel", None), GeminiPart(None, "query")>>,
     <<GeminiPart(None, "query"), GeminiPart(None, "list")>>}

GeminiFinishReasons ==
    {"STOP", "MAX_TOKENS", "SAFETY", "RECITATION", "MALFORMED_FUNCTION_CALL", "OTHER"}

GeminiCandidates ==
    {GeminiCandidate(TRUE, ps, None) : ps \in GeminiPartLists}
    \cup {GeminiCandidate(FALSE, <<>>, fr) : fr \in GeminiFinishReasons \cup {None}}
    \cup {GeminiCandidate(TRUE, <<GeminiPart("Hello", None)>>, "STOP"),
          GeminiCandidate(TRUE, <<GeminiPart(None, "query")>>, "STOP")}

GeminiResponses ==
    {GeminiInvalid, GeminiResponse(TRUE, FALSE, <<>>, None),
     GeminiResponse(TRUE, FALSE, <<>>, "quota"),
     GeminiResponse(TRUE, TRUE,
                    <<GeminiCandidate(FALSE, <<>>, "STOP")>>, "quota"),
     GeminiResponse(TRUE, TRUE,
                    <<GeminiCandidate(TRUE, <<GeminiPart(None, "query")>>, None),
                      GeminiCandidate(TRUE, <<GeminiPart("Hel", None)>>, "STOP")>>, None)}
    \cup {GeminiResponse(TRUE, TRUE, <<c>>, None) : c \in GeminiCandidates}

\* parse_finish_reason of gemini.rs
GeminiParseFinishReason(reason) ==
    CASE reason = "STOP"       -> "Stop"
      [] reason = "MAX_TOKENS" -> "Length"
      [] reason = "SAFETY"     -> "ContentFilter"
      [] reason = "RECITATION" -> "ContentFilter"
      [] reason = "TOOL_CODE"  -> "ToolCalls"
      [] reason = "MALFORMED_FUNCTION_CALL" -> "ToolCalls"
      [] OTHER                 -> "Unknown"

\* The interpreter state the stream task of gemini.rs carries between lines.
GeminiState(idx, pending, chunks) ==
    [tool_call_index |-> idx, pending_tool_calls |-> pending, chunks |-> chunks]

\* GeminiDoPart with the id of the delta formatted after the increment of
\* tool_call_index.
GeminiDoPartLateId(p, st) ==
    LET afterText ==
            IF p.text # None /\ p.text # ""
            THEN st.chunks \o <<Content(p.text)>> ELSE st.chunks
    IN  IF p.function_call # None
        THEN GeminiState(st.tool_call_index + 1,
                         Append(st.pending_tool_calls, CallId(st.tool_call_index)),
                         afterText \o <<ToolCallStart(CallId(st.tool_call_index), p.function_call),
                                        ToolCallDelta(CallId(st.tool_call_index + 1), p.args)>>)
        ELSE GeminiState(st.tool_call_index, st.pending_tool_calls, afterText)

\* GeminiDoPart that sends the arguments of a function call in two deltas.
GeminiDoPartSplitDelta(p, st) ==
    LET afterText ==
            IF p.text # None /\ p.text # ""
            THEN st.chunks \o <<Content(p.text)>> ELSE st.chunks
    IN  IF p.function_call # None
        THEN GeminiState(st.tool_call_index + 1,
                         Append(st.pending_tool_calls, CallId(st.tool_call_index)),
                         afterText \o <<ToolCallStart(CallId(st.tool_call_index), p.function_call),
                                        ToolCallDelta(CallId(st.tool_call_index), "{"),
                                        ToolCallDelta(CallId(st.tool_call_index), p.args)>>)
        ELSE GeminiState(st.tool_call_index, st.pending_tool_calls, afterText)

\* One part: Content for a non-empty text, then ToolCallStart and ToolCallDelta
\* for a function call, which takes the next id.
GeminiDoPart(p, st) ==
    LET afterText ==
            IF p.text # None /\ p.text # ""
            THEN st.chunks \o <<Content(p.text)>> ELSE st.chunks
        id == CallId(st.tool_call_index)
    IN  IF p.function_call # None
        THEN GeminiState(st.tool_call_index + 1,
                         Append(st.pending_tool_calls, id),
                         afterText \o <<ToolCallStart(id, p.function_call),
                                        ToolCallDelta(id, p.args)>>)
        ELSE GeminiState(st.tool_call_index, st.pending_tool_calls, afterText)

RECURSIVE GeminiDoParts(_, _)
GeminiDoParts(ps, st) ==
    IF ps = <<>> THEN st
    ELSE GeminiDoParts(Tail(ps), GeminiDoPart(Head(ps), st))

\* GeminiStreamFinishReason without the override by the pending tool calls.
GeminiStreamFinishReasonNoOverride(reason, pending) ==
    GeminiParseFinishReason(reason)

\* The finish reason of the Done of a candidate.
GeminiStreamFinishReason(reason, pending) ==
    IF pending # <<>> THEN "ToolCalls" ELSE GeminiParseFinishReason(reason)

\* GeminiDoCandidate that never sends Done.
GeminiDoCandidateNoDone(c, st) ==
    IF c.has_content THEN GeminiDoParts(c.parts, st) ELSE st

\* One candidate: its parts, then Done if it has a finish reason.
GeminiDoCandidate(c, st) ==
    LET afterParts == IF c.has_content THEN GeminiDoParts(c.parts, st) ELSE st
    IN  IF c.finish_reason # None
        THEN GeminiState(afterParts.tool_call_index, afterParts.pending_tool_calls,
                 afterParts.chunks \o
                 <<Done(GeminiStreamFinishReason(c.finish_reason,
                                                 afterParts.pending_tool_calls))>>)
        ELSE afterParts

RECURSIVE GeminiDoCandidates(_, _)
GeminiDoCandidates(cs, st) ==
    IF cs = <<>> THEN st
    ELSE GeminiDoCandidates(Tail(cs), GeminiDoCandidate(Head(cs), st))

\* One data line of the Generative-style stream: the state after it (chunks
\* are the chunks sent for this line) and whether the task returns.
GeminiInterpret(resp, idx, pending) ==
    LET st0 == GeminiState(idx, pending, <<>>)
        st1 == IF resp.valid /\ resp.has_candidates
               THEN GeminiDoCandidates(resp.candidates, st0) ELSE st0
    IN  IF ~resp.valid THEN [state |-> st0, step |-> SkipLine]
        ELSE IF resp.error # None
        THEN [state |-> st1, step |-> Step(st1.chunks \o <<Error(resp.error)>>, TRUE)]
        ELSE [state |-> st1, step |-> Step(st1.chunks, FALSE)]

-----------------------------------------------------------------------------
(* Local-orchestrator adapter: the events of the shared event stream       *)

\* The session the call created, and another session of the same server.
ActiveSession == "ses_1"
OtherSession  == "ses_2"

\* The JSON value of an event: type, the three places a session id can be
\* at (properties.sessionID, properties.part.sessionID,
\* properties.info.sessionID), and the fields of PartUpdateProperties,
\* SessionStatusProperties and SessionErrorProperties.
OcPayload(ty, sp, spart, sinfo, part, syn, delta, st, input, status, err) ==
    [type |-> ty, sid_props |-> sp, sid_part |-> spart, sid_info |-> sinfo,
     part |-> part, synthetic |-> syn, delta |-> delta, call_id |-> "call_a",
     tool |-> "query", tool_status |-> st, input |-> input, status |-> status,
     error |-> err]

\* A JSON object with neither type nor properties (what an envelope is when
\* it is read as if it were the event).
OcBare == OcPayload(None, None, None, None, None, FALSE, None, None, None, None, None)

OcText(sp, spart, sinfo, syn, delta) ==
    OcPayload("message.part.updated", sp, spart, sinfo, "text", syn, delta,
              None, None, None, None)
OcTool(spart, st, input) ==
    OcPayload("message.part.updated", None, spart, None, "tool", FALSE, None,
              st, input, None, None)
OcStatus(sp, status) ==
    OcPayload("session.status", sp, None, None, None, FALSE, None, None, None, status, None)
OcError(sp, sinfo, err) ==
    OcPayload("session.error", sp, None, sinfo, None, FALSE, None, None, None, None, err)
OcOther(sinfo) ==
    OcPayload("message.updated", None, None, sinfo, None, FALSE, None, None, None, None, None)

S1 == ActiveSession
S2 == OtherSession

OcPayloads ==
    {OcText(None, None, None, FALSE, "a"), OcText(None, S1, None, FALSE, "a"),
     OcText(None, S2, None, FALSE, "a"), OcText(S2, S1, None, FALSE, "a"),
     OcText(S1, S2, None, FALSE, "a"), OcText(None, S1, S2, FALSE, "a"),
     OcText(None, S2, S1, FALSE, "a"),
     OcText(None, S1, None, TRUE, "a"), OcText(None, S1, None, FALSE, None),
     OcText(None, S1, None, FALSE, "")}
    \cup {OcTool(S1, "pending", None), OcTool(S1, "pending", "{}"),
          OcTool(S1, "running", "{\"sql\":\"1\"}"), OcTool(S1, "completed", "{\"sql\":\"1\"}"),
          OcTool(S2, "running", "{\"sql\":\"1\"}"), OcTool(S1, "error", None)}
    \cup {OcStatus(S1, "idle"), OcStatus(S2, "idle"), OcStatus(None, "idle"),
          OcStatus(S1, "busy")}
    \cup {OcError(S1, None, "boom"), OcError(S2, None, "boom"), OcError(None, None, "boom"),
          OcError(S1, None, None), OcError(None, S1, "boom")}
    \cup {OcOther(S1), OcOther(S2), OcBare}

\* The text of one frame after the data lines are joined: valid = FALSE is a
\* text serde_json rejects; wrapped = TRUE is {directory, payload: <event>}.
OcFrame(v, w, p) == [valid |-> v, wrapped |-> w, payload |-> p]

OcFrames ==
    {OcFrame(FALSE, FALSE, OcBare)}
    \cup {OcFrame(TRUE, FALSE, p) : p \in OcPayloads}
    \cup {OcFrame(TRUE, TRUE, p) :
            p \in {OcText(None, None, None, FALSE, "a"), OcText(None, S1, None, FALSE, "a"),
                   OcText(None, S2, None, FALSE, "a"), OcStatus(S1, "idle"),
                   OcError(S1, None, "boom")}}

\* payload_value: the payload field of an envelope, else the value itself.
OcUnwrap(fr) == fr.payload

\* OcEventSessionId that looks at properties.sessionID only.
OcEventSessionIdPropsOnly(p) == p.sid_props

\* event_session_id: the first of the three places that holds an id.
OcEventSessionId(p) ==
    IF p.sid_props # None THEN p.sid_props
    ELSE IF p.sid_part # None THEN p.sid_part
    ELSE p.sid_info

\* "Skip events not related to our session": TRUE when the event goes on.
OcPassesFilter(sid, target) == sid = None \/ sid = target

\* serde_json::from_value::<EventPayload>: the tag must be there (unknown
\* tags are Other), and the required fields of the variant.
OcTypedOk(p) ==
    CASE p.type = None                   -> FALSE
      [] p.type = "message.part.updated" -> p.part # None
      [] p.type = "session.status"       -> p.sid_props # None /\ p.status # None
      [] OTHER                           -> TRUE

\* args of a tool part: the input as JSON text, "" without input.
OcToolArgs(p) == IF p.input = None THEN "" ELSE p.input

\* The Done of session.status idle.
OcIdleDone == Done("Stop")

\* OcDispatch that sends the delta of every text part, synthetic or not.
OcDispatchSyntheticText(p, target) ==
    IF p.type = "message.part.updated" /\ p.part = "text" /\ p.delta # None /\ p.delta # ""
    THEN Step(<<Content(p.delta)>>, FALSE)
    ELSE Step(<<>>, FALSE)

\* OcDispatch that announces a tool part whatever its status is.
OcDispatchAnyToolStatus(p, target) ==
    IF p.type = "message.part.updated" /\ p.part = "tool"
    THEN Step(<<ToolCallStart(p.call_id, p.tool)>> \o
              (IF OcToolArgs(p) # "" /\ OcToolArgs(p) # "{}"
               THEN <<ToolCallDelta(p.call_id, OcToolArgs(p))>> ELSE <<>>),
              FALSE)
    ELSE Step(<<>>, FALSE)

\* OcDispatch that takes every status of the session for the end of the turn.
OcDispatchAnyStatus(p, target) ==
    IF p.type = "session.status" /\ p.sid_props = target
    THEN Step(<<OcIdleDone>>, TRUE)
    ELSE IF p.type = "session.error" /\ p.sid_props = target
    THEN Step(<<Error(IF p.error = None THEN "Unknown error" ELSE p.error)>>, TRUE)
    ELSE Step(<<>>, FALSE)

\* match event_payload { ... }: the chunks sent and whether the task returns.
OcDispatch(p, target) ==
    CASE p.type = "message.part.updated" ->
            IF p.part = "text"
            THEN IF ~p.synthetic /\ p.delta # None /\ p.delta # ""
                 THEN Step(<<Content(p.delta)>>, FALSE)
                 ELSE Step(<<>>, FALSE)
            ELSE IF p.part = "tool" /\ p.tool_status \in {"pending", "running"}
            THEN Step(<<ToolCallStart(p.call_id, p.tool)>> \o
                      (IF OcToolArgs(p) # "" /\ OcToolArgs(p) # "{}"
                       THEN <<ToolCallDelta(p.call_id, OcToolArgs(p))>> ELSE <<>>),
                      FALSE)
            ELSE Step(<<>>, FALSE)
      [] p.type = "session.status" ->
            IF p.sid_props = target /\ p.status = "idle"
            THEN Step(<<OcIdleDone>>, TRUE)
            ELSE Step(<<>>, FALSE)
      [] p.type = "session.error" ->
            IF p.sid_props = target
            THEN Step(<<Error(IF p.error = None THEN "Unknown error" ELSE p.error)>>, TRUE)
            ELSE Step(<<>>, FALSE)
      [] OTHER -> Step(<<>>, FALSE)

\* One frame of the event stream, from the JSON parse to the dispatch.
OcInterpret(fr, target) ==
    IF ~fr.valid THEN SkipLine
    ELSE IF ~OcPassesFilter(OcEventSessionId(OcUnwrap(fr)), target) THEN Step(<<>>, FALSE)
    ELSE IF ~OcTypedOk(OcUnwrap(fr)) THEN Step(<<>>, FALSE)
    ELSE OcDispatch(OcUnwrap(fr), target)

-----------------------------------------------------------------------------
(* Results of chat and chat_stream                                         *)

\* Result<_, AIProviderError>; tag "none" while the call has not returned.
\* An Ok of chat carries the ChatResponse, an Ok of chat_stream the receiver.
Result(tag, retryable, error_type, content, tool_calls, finish_reason) ==
    [tag |-> tag, retryable |-> retryable, error_type |-> error_type,
     content |-> content, tool_calls |-> tool_calls, finish_reason |-> finish_reason]
NoResult == Result("none", FALSE, None, None, <<>>, None)
\* AIProviderError::new(..), .with_type(..), .retryable()
Err(retryable, error_type) == Result("Err", retryable, error_type, None, <<>>, None)
OkReceiver == Result("Ok", FALSE, None, None, <<>>, None)
ChatResponse(content, tool_calls, finish_reason) ==
    Result("Ok", FALSE, None, content, tool_calls, finish_reason)

\* One HTTP round trip: send_ok = FALSE is a transport failure of send().
Reply(send_ok, status, body) == [send_ok |-> send_ok, status |-> status, body |-> body]
IsSuccess(status) == status >= 200 /\ status < 300
Statuses == {200, 400, 429, 500}
Trip(req, reply) ==
    [req |-> req, send_ok |-> reply.send_ok, status |-> reply.status, body |-> reply.body]

\* String concatenation of the texts of a list.
RECURSIVE Concat(_)
Concat(ts) == IF ts = <<>> THEN "" ELSE Head(ts) \o Concat(Tail(ts))

\* if content.is_empty() { None } else { Some(content) }
NonEmpty(text) == IF text = "" THEN None ELSE text

-----------------------------------------------------------------------------
(* The conversation the caller passes in, and the vendor request built     *)
(* from it                                                                 *)

\* ChatMessage: content and tool_call_id are optional, tool_calls is the
\* list of the ToolCalls of an assistant message (None and an empty list are
\* both <<>>).
ChatMessage(role, content, tool_calls, tool_call_id) ==
    [role |-> role, content |-> content, tool_calls |-> tool_calls,
     tool_call_id |-> tool_call_id]
ToolCall(id, name, arguments) == [id |-> id, name |-> name, arguments |-> arguments]

ChatMessages ==
    {ChatMessage("System", "be terse", <<>>, None),
     ChatMessage("User", "2+2?", <<>>, None),
     ChatMessage("User", "hi", <<>>, None),
     ChatMessage("User", None, <<>>, None),
     ChatMessage("Assistant", "4", <<>>, None),
     ChatMessage("Assistant", None, <<ToolCall("toolu_1", "query", "{\"sql\":\"1\"}")>>, None),
     ChatMessage("Assistant", "", <<ToolCall("toolu_1", "query", "sql")>>, None),
     ChatMessage("Tool", "ok", <<>>, "toolu_1"),
     ChatMessage("Tool", "ok", <<>>, None)}

\* How many messages a conversation of the model has at most.
MaxMessages == 2

Conversations == UNION {[1..n -> ChatMessages] : n \in 0..MaxMessages}

\* The texts of the model that are JSON.
IsJson(text) == text \in {"{\"sql\":\"1\"}", "{}", "7"}

\* serde_json::from_str(&tc.arguments).unwrap_or(serde_json::json!({}))
ParseArguments(arguments) == IF IsJson(arguments) THEN arguments ELSE "{}"

\* Option<HashMap<String, bool>>: the ids that are mapped to true.
NoTools == [some |-> FALSE, ids |-> {}]
SomeTools(ids) == [some |-> TRUE, ids |-> ids]

\* The request the adapter sends: the system slot, the ordinary message list
\* (messages of claude.rs, contents of gemini.rs), the prompt (the text of
\* the one part of opencode.rs), the tools field of opencode.rs, and stream
\* of claude.rs. built = FALSE while no request has been built.
Request(built, system, msgs, prompt, tools, stream_flag) ==
    [built |-> built, system |-> system, messages |-> msgs, prompt |-> prompt,
     tools |-> tools, stream |-> stream_flag]

\* AnthropicContentBlock: Text {text}, ToolUse {id, name, input},
\* ToolResult {tool_use_id, content}
AnthropicBlock(type, text, id, name, input) ==
    [type |-> type, text |-> text, id |-> id, name |-> name, input |-> input]
\* AnthropicMessage: content is Text(text) or Blocks(blocks)
AnthropicMessage(role, text, blocks) == [role |-> role, text |-> text, blocks |-> blocks]

RECURSIVE ClaudeToolUseBlocks(_)
ClaudeToolUseBlocks(tcs) ==
    IF tcs = <<>> THEN <<>>
    ELSE <<AnthropicBlock("tool_use", None, Head(tcs).id, Head(tcs).name,
                          ParseArguments(Head(tcs).arguments))>>
         \o ClaudeToolUseBlocks(Tail(tcs))

\* The blocks of an assistant message: its text if it is not empty, then its
\* tool calls.
ClaudeAssistantBlocks(msg) ==
    (IF msg.content # None /\ msg.content # ""
     THEN <<AnthropicBlock("text", msg.content, None, None, None)>> ELSE <<>>)
    \o ClaudeToolUseBlocks(msg.tool_calls)

\* convert_messages of claude.rs: (system_prompt, anthropic_messages)
RECURSIVE ClaudeConvertMessages(_, _, _)
ClaudeConvertMessages(msgs, system, out) ==
    IF msgs = <<>> THEN [system |-> system, messages |-> out]
    ELSE LET msg == Head(msgs) IN
         CASE msg.role = "System" -> ClaudeConvertMessages(Tail(msgs), msg.content, out)
           [] msg.role = "User" ->
                ClaudeConvertMessages(Tail(msgs), system,
                    IF msg.content # None
                    THEN Append(out, AnthropicMessage("user", msg.content, <<>>))
                    ELSE out)
           [] msg.role = "Assistant" ->
                ClaudeConvertMessages(Tail(msgs), system,
                    IF ClaudeAssistantBlocks(msg) # <<>>
                    THEN Append(out, AnthropicMessage("assistant", None,
                                                      ClaudeAssistantBlocks(msg)))
                    ELSE out)
           [] msg.role = "Tool" ->
                ClaudeConvertMessages(Tail(msgs), system,
                    IF msg.tool_call_id # None /\ msg.content # None
                    THEN Append(out, AnthropicMessage("user", None,
                             <<AnthropicBlock("tool_result", msg.content, msg.tool_call_id,
                                              None, None)>>))
                    ELSE out)

\* AnthropicRequest of chat (stream: None) and of chat_stream (Some(true))
ClaudeRequest(msgs, m) ==
    LET c == ClaudeConvertMessages(msgs, None, <<>>)
    IN  Request(TRUE, c.system, c.messages, None, NoTools,
                IF m = "chat_stream" THEN "true" ELSE None)

\* GeminiPart of a request: text, function_call {name, args},
\* function_response {name, response}
GeminiRequestPart(text, fc_name, fc_args, fr_name, fr_response) ==
    [text |-> text, fc_name |-> fc_name, fc_args |-> fc_args,
     fr_name |-> fr_name, fr_response |-> fr_response]
GeminiContent(role, parts) == [role |-> role, parts |-> parts]

RECURSIVE GeminiFunctionCallParts(_)
GeminiFunctionCallParts(tcs) ==
    IF tcs = <<>> THEN <<>>
    ELSE <<GeminiRequestPart(None, Head(tcs).name, ParseArguments(Head(tcs).arguments),
                             None, None)>>
         \o GeminiFunctionCallParts(Tail(tcs))

GeminiAssistantParts(msg) ==
    (IF msg.content # None /\ msg.content # ""
     THEN <<GeminiRequestPart(msg.content, None, None, None, None)>> ELSE <<>>)
    \o GeminiFunctionCallParts(msg.tool_calls)

\* serde_json::from_str(content).unwrap_or_else(|_| json!({ "result": content }))
GeminiToolResponse(content) ==
    IF IsJson(content) THEN content ELSE "{\"result\":\"" \o content \o "\"}"

\* convert_messages of gemini.rs: (system_instruction, gemini_contents); the
\* system instruction is modelled by the text of its one part.
RECURSIVE GeminiConvertMessages(_, _, _)
GeminiConvertMessages(msgs, system, out) ==
    IF msgs = <<>> THEN [system |-> system, messages |-> out]
    ELSE LET msg == Head(msgs) IN
         CASE msg.role = "System" ->
                GeminiConvertMessages(Tail(msgs),
                    IF msg.content # None THEN msg.content ELSE system, out)
           [] msg.role = "User" ->
                GeminiConvertMessages(Tail(msgs), system,
                    IF msg.content # None
                    THEN Append(out, GeminiContent("user",
                             <<GeminiRequestPart(msg.content, None, None, None, None)>>))
                    ELSE out)
           [] msg.role = "Assistant" ->
                GeminiConvertMessages(Tail(msgs), system,
                    IF GeminiAssistantParts(msg) # <<>>
                    THEN Append(out, GeminiContent("model", GeminiAssistantParts(msg)))
                    ELSE out)
           [] msg.role = "Tool" ->
                GeminiConvertMessages(Tail(msgs), system,
                    IF msg.content # None
                    THEN Append(out, GeminiContent("user",
                             <<GeminiRequestPart(None, None, None,
                                   IF msg.tool_call_id = None THEN "" ELSE msg.tool_call_id,
                                   GeminiToolResponse(msg.content))>>))
                    ELSE out)

\* GeminiRequest of chat and of chat_stream
GeminiRequest(msgs) ==
    LET c == GeminiConvertMessages(msgs, None, <<>>)
    IN  Request(TRUE, c.system, c.messages, None, NoTools, None)

\* extract_system_message of opencode.rs: the content of the first System
\* message.
RECURSIVE ExtractSystemMessage(_)
ExtractSystemMessage(msgs) ==
    IF msgs = <<>> THEN None
    ELSE IF Head(msgs).role = "System" THEN Head(msgs).content
    ELSE ExtractSystemMessage(Tail(msgs))

\* BuildPrompt that takes the first message, whatever its role.
BuildPromptFirstMessage(msgs) ==
    IF msgs = <<>> \/ Head(msgs).content = None THEN "" ELSE Head(msgs).content

\* build_prompt of opencode.rs: the content of the last User message, "" when
\* there is none or it has no content.
RECURSIVE BuildPrompt(_)
BuildPrompt(msgs) ==
    IF msgs = <<>> THEN ""
    ELSE IF Last(msgs).role = "User"
    THEN (IF Last(msgs).content = None THEN "" ELSE Last(msgs).content)
    ELSE BuildPrompt(SubSeq(msgs, 1, Len(msgs) - 1))

\* MessageRequest of chat and of chat_stream
OcMessageRequest(msgs, tools) ==
    Request(TRUE, ExtractSystemMessage(msgs), <<>>, BuildPrompt(msgs), tools, None)

NoRequest == Request(FALSE, None, <<>>, None, NoTools, None)

-----------------------------------------------------------------------------
\* The conversation and the request of a chat_stream that returned Ok(rx), for
\* the specifications that start there.
TaskMessages ==
    <<ChatMessage("System", "be terse", <<>>, None), ChatMessage("User", "2+2?", <<>>, None)>>
TaskRequest(p) ==
    CASE p = "claude"   -> ClaudeRequest(TaskMessages, "chat_stream")
      [] p = "gemini"   -> GeminiRequest(TaskMessages)
      [] p = "opencode" -> OcMessageRequest(TaskMessages, SomeTools({"bash"}))

-----------------------------------------------------------------------------
(* Anthropic-style adapter: chat and the set-up of chat_stream             *)

\* AnthropicResponseContent
ClaudeText(t) == [type |-> "text", text |-> t, id |-> None, name |-> None, input |-> None]
ClaudeToolUse(i) ==
    [type |-> "tool_use", text |-> None, id |-> i, name |-> "query", input |-> "{\"sql\":\"1\"}"]

\* The body of a reply: kind "error_json" has an "error" object (with its
\* type), "text" is no JSON, "unparsable" does not deserialize into the
\* response type, "response" does, "read_failed" is a body whose read fails.
ClaudeBody(kind, error_type, error, content, stop_reason) ==
    [kind |-> kind, error_type |-> error_type, error |-> error,
     content |-> content, stop_reason |-> stop_reason]

ClaudeContents ==
    {<<>>, <<ClaudeText("4")>>, <<ClaudeText("")>>, <<ClaudeToolUse("toolu_1")>>,
     <<ClaudeText("4"), ClaudeText("2")>>, <<ClaudeText("4"), ClaudeToolUse("toolu_1")>>,
     <<ClaudeToolUse("toolu_1"), ClaudeToolUse("toolu_2")>>}

ClaudeStopReasons == {None, "end_turn", "stop_sequence", "tool_use", "max_tokens", "refusal"}

ErrorBodies ==
    {ClaudeBody("error_json", "overloaded_error", "x", <<>>, None),
     ClaudeBody("error_json", None, "x", <<>>, None),
     ClaudeBody("text", None, None, <<>>, None)}

ClaudeReplies ==
    {Reply(FALSE, 0, ClaudeBody("text", None, None, <<>>, None))}
    \cup {Reply(TRUE, st, b) : st \in Statuses \ {200}, b \in ErrorBodies}
    \cup {Reply(TRUE, 200, ClaudeBody("read_failed", None, None, <<>>, None)),
          Reply(TRUE, 200, ClaudeBody("unparsable", None, None, <<>>, None)),
          Reply(TRUE, 200, ClaudeBody("response", "api_error", "x", <<>>, None))}
    \cup {Reply(TRUE, 200, ClaudeBody("response", None, None, c, sr)) :
            c \in ClaudeContents, sr \in ClaudeStopReasons}

\* ClaudeTexts with the texts in reverse order.
RECURSIVE ClaudeTextsReversed(_)
ClaudeTextsReversed(bs) ==
    IF bs = <<>> THEN <<>>
    ELSE ClaudeTextsReversed(Tail(bs)) \o (IF Head(bs).type = "text" THEN <<Head(bs).text>> ELSE <<>>)

\* The texts of the text blocks, and the tool calls of the tool-use blocks.
RECURSIVE ClaudeTexts(_)
ClaudeTexts(bs) ==
    IF bs = <<>> THEN <<>>
    ELSE (IF Head(bs).type = "text" THEN <<Head(bs).text>> ELSE <<>>) \o ClaudeTexts(Tail(bs))
RECURSIVE ClaudeToolCalls(_)
ClaudeToolCalls(bs) ==
    IF bs = <<>> THEN <<>>
    ELSE (IF Head(bs).type = "tool_use"
          THEN <<[id |-> Head(bs).id, name |-> Head(bs).name, arguments |-> Head(bs).input]>>
          ELSE <<>>) \o ClaudeToolCalls(Tail(bs))

\* finish_reason of the ChatResponse of claude.rs
ClaudeChatFinishReason(stop_reason, tool_calls) == ClaudeParseFinishReason(stop_reason)

\* Whether the error of a non-2xx reply with an error object is retryable.
RetryableStatus(status) == status = 429 \/ status >= 500

\* What chat returns for a reply.
ClaudeChatResult(r) ==
    IF ~r.send_ok THEN Err(TRUE, None)
    ELSE IF r.body.kind = "read_failed" THEN Err(FALSE, None)
    ELSE IF ~IsSuccess(r.status)
    THEN IF r.body.kind = "error_json"
         THEN Err(RetryableStatus(r.status), r.body.error_type)
         ELSE Err(FALSE, None)
    ELSE IF r.body.kind # "response" THEN Err(FALSE, None)
    ELSE IF r.body.error # None THEN Err(FALSE, r.body.error_type)
    ELSE ChatResponse(NonEmpty(Concat(ClaudeTexts(r.body.content))),
                      ClaudeToolCalls(r.body.content),
                      ClaudeChatFinishReason(r.body.stop_reason,
                                             ClaudeToolCalls(r.body.content)))

\* ClaudeProvider::chat
ClaudeChat ==
    /\ provider = "claude" /\ mode = "chat" /\ pc = "start"
    /\ request' = ClaudeRequest(messages, mode)
    /\ \E r \in ClaudeReplies :
          /\ http' = Append(http, Trip("POST /v1/messages", r))
          /\ result' = ClaudeChatResult(r)
    /\ pc' = "returned"
    /\ UNCHANGED <<provider, mode, chan, task, session_id, opencode_tools, taskVars, sseVars>>
    /\ UNCHANGED stream
    /\ UNCHANGED chanVars
    /\ UNCHANGED messages
    /\ UNCHANGED <<lineVars, storeVars>>

\* The replies to a streaming request: only send and status are looked at
\* before the task is spawned.
StreamReplies ==
    {Reply(FALSE, 0, ClaudeBody("text", None, None, <<>>, None))}
    \cup {Reply(TRUE, st, b) : st \in Statuses \ {200}, b \in ErrorBodies}
    \cup {Reply(TRUE, 200, ClaudeBody("stream", None, None, <<>>, None))}

\* StreamEstablished without the check of the status.
StreamEstablishedAnyStatus(r) == r.send_ok

\* Whether chat_stream goes on to create the channel and spawn the task.
StreamEstablished(r) == r.send_ok /\ IsSuccess(r.status)

\* What chat_stream returns for the reply to its request.
StreamSetupResult(r) ==
    IF ~r.send_ok THEN Err(TRUE, None)
    ELSE IF ~IsSuccess(r.status) THEN Err(FALSE, None)
    ELSE OkReceiver

\* ClaudeProvider::chat_stream up to Ok(rx)
ClaudeChatStream ==
    /\ provider = "claude" /\ mode = "chat_stream" /\ pc = "start"
    /\ request' = ClaudeRequest(messages, mode)
    /\ \E r \in StreamReplies :
          /\ http' = Append(http, Trip("POST /v1/messages", r))
          /\ result' = StreamSetupResult(r)
          /\ chan' = IF StreamEstablished(r) THEN "open" ELSE chan
          /\ task' = IF StreamEstablished(r) THEN "running" ELSE task
          /\ stream' = IF StreamEstablished(r) THEN "open" ELSE stream
          /\ rx' = IF StreamEstablished(r) THEN "held" ELSE rx
    /\ pc' = "returned"
    /\ UNCHANGED <<provider, mode, session_id, opencode_tools, taskVars, sseVars>>
    /\ UNCHANGED <<queue, received, outbox, lost>>
    /\ UNCHANGED messages
    /\ UNCHANGED <<lineVars, storeVars>>

\* One "data: " line inside the spawned task of claude.rs
ClaudeStreamLine ==
    /\ provider = "claude" /\ task = "running" /\ Len(frames) < MaxClaudeLines
    /\ \E ev \in ClaudeEvents :
          LET step == ClaudeInterpret(ev, current_tool_id) IN
          /\ frames' = Append(frames, ev)
          /\ sent' = sent \o step.chunks
          /\ current_tool_id' = ClaudeNextToolId(ev, current_tool_id)
          /\ task' = IF step.return THEN "ended" ELSE "running"
          /\ chan' = IF step.return THEN "closed" ELSE chan
    /\ UNCHANGED <<provider, mode, pc, http, result, session_id, opencode_tools,
                   tool_call_index, pending_tool_calls, sseVars>>
    /\ UNCHANGED stream
    /\ UNCHANGED chanVars
    /\ UNCHANGED reqVars
    /\ UNCHANGED <<lineVars, storeVars>>

-----------------------------------------------------------------------------
(* Generative-style adapter: chat and the set-up of chat_stream            *)

GeminiBody(kind, response) == [kind |-> kind, error_type |-> None, response |-> response]

GeminiReplies ==
    {Reply(FALSE, 0, GeminiBody("text", GeminiInvalid))}
    \cup {Reply(TRUE, st, b) : st \in Statuses \ {200}, b \in ErrorBodies}
    \cup {Reply(TRUE, 200, GeminiBody("read_failed", GeminiInvalid))}
    \cup {Reply(TRUE, 200, GeminiBody("response", g)) : g \in GeminiResponses}

\* The texts of the parts, and the tool calls of the function-call parts, the
\* k-th of them (from idx) with id call_k.
RECURSIVE GeminiTexts(_)
GeminiTexts(ps) ==
    IF ps = <<>> THEN <<>>
    ELSE (IF Head(ps).text # None THEN <<Head(ps).text>> ELSE <<>>) \o GeminiTexts(Tail(ps))
RECURSIVE GeminiToolCalls(_, _)
GeminiToolCalls(ps, idx) ==
    IF ps = <<>> THEN <<>>
    ELSE IF Head(ps).function_call # None
    THEN <<[id |-> CallId(idx), name |-> Head(ps).function_call, arguments |-> Head(ps).args]>>
         \o GeminiToolCalls(Tail(ps), idx + 1)
    ELSE GeminiToolCalls(Tail(ps), idx)

\* finish_reason of the ChatResponse of gemini.rs
GeminiChatFinishReason(reason, tool_calls) ==
    IF tool_calls # <<>> THEN "ToolCalls" ELSE GeminiParseFinishReason(reason)

\* The ChatResponse for the first candidate.
GeminiCandidateResponse(c) ==
    LET ps == IF c.has_content THEN c.parts ELSE <<>>
    IN  ChatResponse(NonEmpty(Concat(GeminiTexts(ps))), GeminiToolCalls(ps, 0),
                     GeminiChatFinishReason(c.finish_reason, GeminiToolCalls(ps, 0)))

\* What chat returns for a reply.
GeminiChatResult(r) ==
    IF ~r.send_ok THEN Err(TRUE, None)
    ELSE IF r.body.kind = "read_failed" THEN Err(FALSE, None)
    ELSE IF ~IsSuccess(r.status)
    THEN IF r.body.kind = "error_json"
         THEN Err(RetryableStatus(r.status), r.body.error_type)
         ELSE Err(FALSE, None)
    ELSE IF ~r.body.response.valid THEN Err(FALSE, None)
    ELSE IF r.body.response.error # None THEN Err(FALSE, None)
    ELSE IF ~r.body.response.has_candidates \/ r.body.response.candidates = <<>>
    THEN Err(FALSE, None)
    ELSE GeminiCandidateResponse(Head(r.body.response.candidates))

\* GeminiProvider::chat
GeminiChat ==
    /\ provider = "gemini" /\ mode = "chat" /\ pc = "start"
    /\ request' = GeminiRequest(messages)
    /\ \E r \in GeminiReplies :
          /\ http' = Append(http, Trip("POST :generateContent", r))
          /\ result' = GeminiChatResult(r)
    /\ pc' = "returned"
    /\ UNCHANGED <<provider, mode, chan, task, session_id, opencode_tools, taskVars, sseVars>>
    /\ UNCHANGED stream
    /\ UNCHANGED chanVars
    /\ UNCHANGED messages
    /\ UNCHANGED <<lineVars, storeVars>>

\* GeminiProvider::chat_stream up to Ok(rx)
GeminiChatStream ==
    /\ provider = "gemini" /\ mode = "chat_stream" /\ pc = "start"
    /\ request' = GeminiRequest(messages)
    /\ \E r \in StreamReplies :
          /\ http' = Append(http, Trip("POST :streamGenerateContent", r))
          /\ result' = StreamSetupResult(r)
          /\ chan' = IF StreamEstablished(r) THEN "open" ELSE chan
          /\ task' = IF StreamEstablished(r) THEN "running" ELSE task
          /\ stream' = IF StreamEstablished(r) THEN "open" ELSE stream
          /\ rx' = IF StreamEstablished(r) THEN "held" ELSE rx
    /\ pc' = "returned"
    /\ UNCHANGED <<provider, mode, session_id, opencode_tools, taskVars, sseVars>>
    /\ UNCHANGED <<queue, received, outbox, lost>>
    /\ UNCHANGED messages
    /\ UNCHANGED <<lineVars, storeVars>>

\* One "data: " line inside the spawned task of gemini.rs
GeminiStreamLine ==
    /\ provider = "gemini" /\ task = "running" /\ Len(frames) < MaxGeminiLines
    /\ \E resp \in GeminiResponses :
          LET r == GeminiInterpret(resp, tool_call_index, pending_tool_calls) IN
          /\ frames' = Append(frames, resp)
          /\ sent' = sent \o r.step.chunks
          /\ tool_call_index' = r.state.tool_call_index
          /\ pending_tool_calls' = r.state.pending_tool_calls
          /\ task' = IF r.step.return THEN "ended" ELSE "running"
          /\ chan' = IF r.step.return THEN "closed" ELSE chan
    /\ UNCHANGED <<provider, mode, pc, http, result, session_id, opencode_tools,
                   current_tool_id, sseVars>>
    /\ UNCHANGED stream
    /\ UNCHANGED chanVars
    /\ UNCHANGED reqVars
    /\ UNCHANGED <<lineVars, storeVars>>

-----------------------------------------------------------------------------
(* Local-orchestrator adapter: chat and the set-up of chat_stream          *)

\* Replies whose body is only looked at for being parsable.
PlainBody(kind) == [kind |-> kind, error_type |-> None]
PlainReplies ==
    {Reply(FALSE, 0, PlainBody("text"))}
    \cup {Reply(TRUE, st, PlainBody("text")) : st \in Statuses \ {200}}
    \cup {Reply(TRUE, 200, PlainBody(k)) : k \in {"read_failed", "unparsable", "ok"}}

\* Whether create_session returns the session.
SessionCreated(r) == r.send_ok /\ IsSuccess(r.status) /\ r.body.kind = "ok"

\* OpenCodeProvider::create_session, the first step of chat and chat_stream
OcCreateSession ==
    /\ provider = "opencode" /\ pc = "start"
    /\ \E r \in PlainReplies :
          /\ http' = Append(http, Trip("POST /session", r))
          /\ IF SessionCreated(r)
             THEN /\ session_id' = ActiveSession
                  /\ pc' = "fetch_tool_ids"
                  /\ result' = result
             ELSE /\ session_id' = session_id
                  /\ pc' = "returned"
                  /\ result' = Err(FALSE, None)
    /\ UNCHANGED <<provider, mode, chan, task, opencode_tools, taskVars, sseVars>>
    /\ UNCHANGED stream
    /\ UNCHANGED chanVars
    /\ UNCHANGED reqVars
    /\ UNCHANGED <<lineVars, storeVars>>

ToolIdLists == {{}, {"bash"}, {"bash", "read"}}
ToolReplies ==
    {Reply(FALSE, 0, [kind |-> "text", ids |-> {}])}
    \cup {Reply(TRUE, st, [kind |-> "text", ids |-> {}]) : st \in Statuses \ {200}}
    \cup {Reply(TRUE, 200, [kind |-> "unparsable", ids |-> {}])}
    \cup {Reply(TRUE, 200, [kind |-> "ok", ids |-> ids]) : ids \in ToolIdLists}

\* FetchToolIdsResult that turns an empty list into an empty mapping.
FetchToolIdsResultEmptyMap(r) ==
    IF ~r.send_ok \/ ~IsSuccess(r.status) \/ r.body.kind # "ok" THEN NoTools
    ELSE SomeTools(r.body.ids)

\* What fetch_tool_ids returns for a reply.
FetchToolIdsResult(r) ==
    IF ~r.send_ok \/ ~IsSuccess(r.status) \/ r.body.kind # "ok" THEN NoTools
    ELSE IF r.body.ids = {} THEN NoTools
    ELSE SomeTools(r.body.ids)

\* OpenCodeProvider::fetch_tool_ids as called by chat and chat_stream
OcFetchToolIds ==
    /\ provider = "opencode" /\ pc = "fetch_tool_ids"
    /\ \E r \in ToolReplies :
          /\ http' = Append(http, Trip("GET /experimental/tool/ids", r))
          /\ opencode_tools' = FetchToolIdsResult(r)
    /\ pc' = IF mode = "chat" THEN "message" ELSE "event"
    /\ UNCHANGED <<provider, mode, result, chan, task, session_id, taskVars, sseVars>>
    /\ UNCHANGED stream
    /\ UNCHANGED chanVars
    /\ UNCHANGED reqVars
    /\ UNCHANGED <<lineVars, storeVars>>

\* PartResponse of a MessageResponse
OcPartText(t, syn) == [type |-> "text", text |-> t, synthetic |-> syn, call_id |-> None,
                       tool |-> None, input |-> None]
OcPartTool(id, input) == [type |-> "tool", text |-> None, synthetic |-> FALSE, call_id |-> id,
                          tool |-> "query", input |-> input]
OcPartOther == [type |-> "step-start", text |-> None, synthetic |-> FALSE, call_id |-> None,
                tool |-> None, input |-> None]

OcPartLists ==
    {<<>>, <<OcPartText("4", FALSE)>>, <<OcPartText("", FALSE)>>, <<OcPartText("4", TRUE)>>,
     <<OcPartOther>>, <<OcPartTool("call_a", None)>>,
     <<OcPartText("4", FALSE), OcPartText("2", FALSE)>>,
     <<OcPartText("4", FALSE), OcPartTool("call_a", "{\"sql\":\"1\"}")>>,
     <<OcPartTool("call_a", "{}"), OcPartTool("call_b", "{\"sql\":\"1\"}")>>}

OcMessageBody(kind, error, parts) ==
    [kind |-> kind, error_type |-> None, error |-> error, parts |-> parts]
OcMessageReplies ==
    {Reply(FALSE, 0, OcMessageBody("text", None, <<>>))}
    \cup {Reply(TRUE, st, OcMessageBody("text", None, <<>>)) : st \in Statuses \ {200}}
    \cup {Reply(TRUE, 200, OcMessageBody(k, None, <<>>)) : k \in {"read_failed", "unparsable"}}
    \cup {Reply(TRUE, 200, OcMessageBody("response", "boom", <<>>))}
    \cup {Reply(TRUE, 200, OcMessageBody("response", None, ps)) : ps \in OcPartLists}

\* content_parts: the non-empty texts of the parts that are not synthetic.
RECURSIVE OcContentParts(_)
OcContentParts(ps) ==
    IF ps = <<>> THEN <<>>
    ELSE (IF Head(ps).type = "text" /\ ~Head(ps).synthetic /\ Head(ps).text # ""
          THEN <<Head(ps).text>> ELSE <<>>) \o OcContentParts(Tail(ps))
RECURSIVE OcToolCalls(_)
OcToolCalls(ps) ==
    IF ps = <<>> THEN <<>>
    ELSE (IF Head(ps).type = "tool"
          THEN <<[id |-> Head(ps).call_id, name |-> Head(ps).tool,
                  arguments |-> IF Head(ps).input = None THEN "" ELSE Head(ps).input]>>
          ELSE <<>>) \o OcToolCalls(Tail(ps))

\* content_parts.join("\n")
RECURSIVE JoinLines(_)
JoinLines(ts) ==
    IF ts = <<>> THEN ""
    ELSE IF Len(ts) = 1 THEN Head(ts)
    ELSE Head(ts) \o "\n" \o JoinLines(Tail(ts))

\* finish_reason of the ChatResponse of opencode.rs
OcChatFinishReason(tool_calls) == IF tool_calls # <<>> THEN "ToolCalls" ELSE "Stop"

\* What chat returns for the reply to POST /session/{id}/message.
OcChatResult(r) ==
    IF ~r.send_ok THEN Err(TRUE, None)
    ELSE IF r.body.kind = "read_failed" THEN Err(FALSE, None)
    ELSE IF ~IsSuccess(r.status) THEN Err(FALSE, None)
    ELSE IF r.body.kind # "response" THEN Err(FALSE, None)
    ELSE IF r.body.error # None THEN Err(FALSE, None)
    ELSE ChatResponse(IF OcContentParts(r.body.parts) = <<>> THEN None
                      ELSE JoinLines(OcContentParts(r.body.parts)),
                      OcToolCalls(r.body.parts),
                      OcChatFinishReason(OcToolCalls(r.body.parts)))

\* OpenCodeProvider::chat from the blocking message request on
OcPostMessage ==
    /\ provider = "opencode" /\ mode = "chat" /\ pc = "message"
    /\ request' = OcMessageRequest(messages, opencode_tools)
    /\ \E r \in OcMessageReplies :
          /\ http' = Append(http, Trip("POST /session/{id}/message", r))
          /\ result' = OcChatResult(r)
    /\ pc' = "returned"
    /\ UNCHANGED <<provider, mode, chan, task, session_id, opencode_tools, taskVars, sseVars>>
    /\ UNCHANGED stream
    /\ UNCHANGED chanVars
    /\ UNCHANGED messages
    /\ UNCHANGED <<lineVars, storeVars>>

\* Whether a request of the set-up of chat_stream lets the call go on.
OcRequestOk(r) == r.send_ok /\ IsSuccess(r.status)

ConnectReplies ==
    {Reply(FALSE, 0, PlainBody("text"))}
    \cup {Reply(TRUE, st, PlainBody("text")) : st \in Statuses}

\* OcAfterEventStream without the check of the status of the reply.
OcAfterEventStreamUnchecked(r) == "prompt_async"

\* Where chat_stream goes after the reply to GET /event.
OcAfterEventStream(r) == IF OcRequestOk(r) THEN "prompt_async" ELSE "returned"

\* OpenCodeProvider::chat_stream, step 4: connect to the event stream
OcConnectEventStream ==
    /\ provider = "opencode" /\ mode = "chat_stream" /\ pc = "event"
    /\ \E r \in ConnectReplies :
          /\ http' = Append(http, Trip("GET /event", r))
          /\ pc' = OcAfterEventStream(r)
          /\ result' = IF OcRequestOk(r) THEN result ELSE Err(FALSE, None)
    /\ UNCHANGED <<provider, mode, chan, task, session_id, opencode_tools, taskVars, sseVars>>
    /\ UNCHANGED stream
    /\ UNCHANGED chanVars
    /\ UNCHANGED reqVars
    /\ UNCHANGED <<lineVars, storeVars>>

\* OpenCodeProvider::chat_stream, steps 5 and 6: post the prompt, then create
\* the channel and spawn the task
OcPostPromptAsync ==
    /\ provider = "opencode" /\ mode = "chat_stream" /\ pc = "prompt_async"
    /\ request' = OcMessageRequest(messages, opencode_tools)
    /\ \E r \in ConnectReplies :
          /\ http' = Append(http, Trip("POST /session/{id}/prompt_async", r))
          /\ result' = IF OcRequestOk(r) THEN OkReceiver ELSE Err(FALSE, None)
          /\ chan' = IF OcRequestOk(r) THEN "open" ELSE chan
          /\ task' = IF OcRequestOk(r) THEN "running" ELSE task
          /\ stream' = IF OcRequestOk(r) THEN "open" ELSE stream
          /\ rx' = IF OcRequestOk(r) THEN "held" ELSE rx
    /\ pc' = "returned"
    /\ UNCHANGED <<provider, mode, session_id, opencode_tools, taskVars, sseVars>>
    /\ UNCHANGED <<queue, received, outbox, lost>>
    /\ UNCHANGED messages
    /\ UNCHANGED <<lineVars, storeVars>>

\* One frame of the event stream inside the spawned task of opencode.rs
OcStreamFrame ==
    /\ provider = "opencode" /\ task = "running" /\ Len(frames) < MaxOcFrames
    /\ \E fr \in OcFrames :
          LET step == OcInterpret(fr, session_id) IN
          /\ frames' = Append(frames, fr)
          /\ sent' = sent \o step.chunks
          /\ task' = IF step.return THEN "ended" ELSE "running"
          /\ chan' = IF step.return THEN "closed" ELSE chan
    /\ UNCHANGED <<provider, mode, pc, http, result, session_id, opencode_tools,
                   current_tool_id, tool_call_index, pending_tool_calls, sseVars>>
    /\ UNCHANGED stream
    /\ UNCHANGED chanVars
    /\ UNCHANGED reqVars
    /\ UNCHANGED <<lineVars, storeVars>>

-----------------------------------------------------------------------------
(* The ends of the byte stream, in all three tasks                         *)

\* ReadErrorChunks of a task that ends on a read error without a chunk.
ReadErrorChunksSilent == <<>>

\* What the task sends when stream.next() yields Err(e).
ReadErrorChunks == <<Error("read error")>>

\* Some(Err(e)): the read of the byte stream fails
StreamReadError ==
    /\ mode = "chat_stream" /\ task = "running"
    /\ sent' = sent \o ReadErrorChunks
    /\ task' = "ended"
    /\ chan' = "closed"
    /\ UNCHANGED <<provider, mode, pc, http, result, session_id, opencode_tools,
                   frames, current_tool_id, tool_call_index, pending_tool_calls, sseVars>>
    /\ stream' = "error"
    /\ UNCHANGED chanVars
    /\ UNCHANGED reqVars
    /\ UNCHANGED <<lineVars, storeVars>>

\* StreamEnd of a task that reports the end of a stream as an error.
StreamEndReported ==
    /\ mode = "chat_stream" /\ task = "running"
    /\ sent' = Append(sent, Error("stream ended"))
    /\ task' = "ended"
    /\ chan' = "closed"
    /\ UNCHANGED <<provider, mode, pc, http, result, session_id, opencode_tools,
                   frames, current_tool_id, tool_call_index, pending_tool_calls, sseVars>>
    /\ stream' = "ended"
    /\ UNCHANGED chanVars
    /\ UNCHANGED reqVars
    /\ UNCHANGED <<lineVars, storeVars>>

\* None: the byte stream ends, the while loop and the task with it
StreamEnd ==
    /\ mode = "chat_stream" /\ task = "running"
    /\ task' = "ended"
    /\ chan' = "closed"
    /\ UNCHANGED <<provider, mode, pc, http, result, session_id, opencode_tools,
                   taskVars, sseVars>>
    /\ stream' = "ended"
    /\ UNCHANGED chanVars
    /\ UNCHANGED reqVars
    /\ UNCHANGED <<lineVars, storeVars>>

-----------------------------------------------------------------------------
(* The lines of one SSE event block and the payloads given to the parser   *)

\* A line is a list of tokens: the marker "data:", a space, and the two
\* characters of the JSON text {}; "event" is the name of another field.
EventLines ==
    {<<"data:", " ", "{", "}">>, <<"data:", "{", "}">>,
     <<"data:", " ", "{">>, <<"data:", " ", "}">>, <<"data:", "}">>,
     <<"data:", " ">>, <<"event", ":", " ", "{", "}">>}

\* How many lines an event block has at most.
MaxBlockLines == 2

EventBlocks == UNION {[1..n -> EventLines] : n \in 0..MaxBlockLines}

\* line.strip_prefix(prefix): Some(rest) or None
HasPrefix(line, prefix) ==
    Len(prefix) <= Len(line) /\ SubSeq(line, 1, Len(prefix)) = prefix
StripPrefix(line, prefix) == SubSeq(line, Len(prefix) + 1, Len(line))

\* str::trim() of a payload, is_empty() of it
RECURSIVE TrimStart(_)
TrimStart(s) == IF s # <<>> /\ Head(s) = " " THEN TrimStart(Tail(s)) ELSE s
RECURSIVE TrimEnd(_)
TrimEnd(s) ==
    IF s # <<>> /\ s[Len(s)] = " " THEN TrimEnd(SubSeq(s, 1, Len(s) - 1)) ELSE s
Trim(s) == TrimEnd(TrimStart(s))

\* claude.rs and gemini.rs: every line that starts with "data: " is given to
\* the parser on its own.
RECURSIVE DataSpaceLines(_)
DataSpaceLines(block) ==
    IF block = <<>> THEN <<>>
    ELSE (IF HasPrefix(Head(block), <<"data:", " ">>)
          THEN <<StripPrefix(Head(block), <<"data:", " ">>)>> ELSE <<>>)
         \o DataSpaceLines(Tail(block))

\* opencode.rs: data_str, the data of all lines that start with "data: " or
\* with "data:", pushed one after the other.
RECURSIVE OcDataStr(_)
OcDataStr(block) ==
    IF block = <<>> THEN <<>>
    ELSE (IF HasPrefix(Head(block), <<"data:", " ">>)
          THEN StripPrefix(Head(block), <<"data:", " ">>)
          ELSE IF HasPrefix(Head(block), <<"data:">>)
          THEN StripPrefix(Head(block), <<"data:">>)
          ELSE <<>>)
         \o OcDataStr(Tail(block))

\* opencode.rs: the payloads given to the parser for one event block.
OcBlockPayloads(block) ==
    IF Trim(OcDataStr(block)) = <<>> THEN <<>> ELSE <<OcDataStr(block)>>

\* What the decoding of the event block gave the parser.
Parsed(done, payloads) == [done |-> done, payloads |-> payloads]

\* No event block is being decoded.
LinesIdle == event_block = <<>> /\ parsed = Parsed(FALSE, <<>>)

-----------------------------------------------------------------------------
(* chat_storage.rs: the chats directory, the legacy file, and the commands *)

MAX_SESSIONS == 50

\* A chat id and a file name are lists of tokens: a token is a run of ASCII
\* letters and digits, or one other character, or the extension of a file.
IdTokens == {"a", "b", "index", "stale", "legacy"} \cup {"f" \o ToString(k) : k \in 1..MAX_SESSIONS}

\* is_valid_chat_id (the length is counted in tokens)
IsValidChatId(chat_id) ==
    /\ chat_id # <<>>
    /\ Len(chat_id) <= 128
    /\ \A k \in DOMAIN chat_id : chat_id[k] \in IdTokens \cup {"-", "_"}

\* The contents a file can have, as serde_json reads them: a session object,
\* the array of index entries, an array of sessions, text that is no JSON.
\* An id of <<>> is an id that is missing, no string, or empty.
SessionValue(id, updated_at) ==
    [kind |-> "session", id |-> id, updated_at |-> updated_at, items |-> <<>>]
IndexValue(entries) ==
    [kind |-> "index", id |-> <<>>, updated_at |-> 0, items |-> entries]
ListValue(sessions) ==
    [kind |-> "list", id |-> <<>>, updated_at |-> 0, items |-> sessions]
Garbage == [kind |-> "garbage", id |-> <<>>, updated_at |-> 0, items |-> <<>>]
\* The file does not exist.
Absent == [kind |-> "absent", id |-> <<>>, updated_at |-> 0, items |-> <<>>]

\* ChatIndexEntry (the fields the order and the file names depend on)
ChatIndexEntry(id, updated_at) == [id |-> id, updated_at |-> updated_at]

\* session_file_path, CHAT_INDEX_FILE_NAME, and a file that is no .json file
SessionFileName(chat_id) == chat_id \o <<".json">>
ChatIndexFileName == <<"index", ".json">>
NotesFileName == <<"notes", ".txt">>

\* file_name.ends_with(".json"), file_name.strip_suffix(".json")
EndsWithJson(file_name) == file_name # <<>> /\ file_name[Len(file_name)] = ".json"
StripJson(file_name) == SubSeq(file_name, 1, Len(file_name) - 1)

\* The names the files of the chats directory can have in the model.
FileNames == {SessionFileName(<<t>>) : t \in IdTokens} \cup {NotesFileName}

\* read_dir: the names of the files that exist
DirEntries(dir) == {n \in DOMAIN dir : dir[n] # Absent}

\* serde_json::from_str::<Value> and ::<Vec<ChatIndexEntry>> are Ok
ParsesAsValue(content) == content.kind \in {"session", "index", "list"}
ParsesAsIndex(content) == content.kind = "index"

\* session_to_index_entry: None (<<>>) or Some (<<entry>>)
SessionToIndexEntry(session) ==
    IF session.kind = "session" /\ IsValidChatId(session.id)
    THEN <<ChatIndexEntry(session.id, session.updated_at)>>
    ELSE <<>>

\* limit_sessions: the last MAX_SESSIONS sessions
LimitSessions(sessions) ==
    LET start == IF Len(sessions) > MAX_SESSIONS THEN Len(sessions) - MAX_SESSIONS ELSE 0
    IN  SubSeq(sessions, start + 1, Len(sessions))

\* slice::sort_by(|l, r| r.key.cmp(&l.key)): stable, descending. A pair is
\* <<key, position of the item>>; it goes in front of the first pair with a
\* smaller key, which is behind every pair whose key is not smaller.
InsertDesc(pair, sorted) ==
    LET kept == Cardinality({k \in DOMAIN sorted : sorted[k][1] >= pair[1]})
    IN  SubSeq(sorted, 1, kept) \o <<pair>> \o SubSeq(sorted, kept + 1, Len(sorted))
SortPairsDesc[pairs \in Seq(Int \X Nat), sorted \in Seq(Int \X Nat)] ==
    IF pairs = <<>> THEN sorted
    ELSE SortPairsDesc[Tail(pairs), InsertDesc(Head(pairs), sorted)]
\* keys[i] is the key of items[i].
SortDescBy(items, keys) ==
    LET Place(sorted) == [i \in DOMAIN sorted |-> items[sorted[i][2]]]
    IN  Place(SortPairsDesc[[i \in DOMAIN items |-> <<keys[i], i>>], <<>>])

\* sort_index_desc
SortIndexDesc(entries) ==
    SortDescBy(entries, [i \in DOMAIN entries |-> entries[i].updated_at])

\* The index entries of the sessions that have one, in order.
HasIndexEntry(session) == SessionToIndexEntry(session) # <<>>
IndexEntries(sessions) ==
    LET Entries(with_entry) ==
            [k \in DOMAIN with_entry |-> SessionToIndexEntry(with_entry[k])[1]]
    IN  Entries(SelectSeq(sessions, HasIndexEntry))

\* The first loop of write_sessions_and_index: write_json_atomic of every
\* session that has an index entry to its session file.
\* A file holds the last session written to it.
WriteSessionFiles(dir, sessions) ==
    [n \in DOMAIN dir |->
        LET written == {k \in DOMAIN sessions :
                           /\ HasIndexEntry(sessions[k])
                           /\ SessionFileName(sessions[k].id) = n}
        IN  IF written = {} THEN dir[n]
            ELSE sessions[CHOOSE k \in written : \A j \in written : j <= k]]

\* The second loop: remove every .json file other than the index whose stem
\* is not in seen_ids.
RemoveStaleFiles(dir, seen_ids) ==
    [n \in DOMAIN dir |->
        IF n # ChatIndexFileName /\ EndsWithJson(n) /\ StripJson(n) \notin seen_ids
        THEN Absent ELSE dir[n]]

\* write_sessions_and_index when every file operation succeeds: the directory
\* after it and the value returned.
WriteSessionsAndIndex(dir, sessions) ==
    LET limited == LimitSessions(sessions)
        index_entries == IndexEntries(limited)
        seen_ids == {index_entries[k].id : k \in DOMAIN index_entries}
        written == WriteSessionFiles(dir, limited)
        cleaned == RemoveStaleFiles(written, seen_ids)
    IN  [dir |-> [cleaned EXCEPT ![ChatIndexFileName] =
                      IndexValue(SortIndexDesc(index_entries))],
         result |-> limited]

\* The orders in which read_dir can give the names of a set of files.
Orderings(names) ==
    {f \in [1..Cardinality(names) -> names] :
        \A i, j \in 1..Cardinality(names) : i # j => f[i] # f[j]}

\* The values of the files of a list that parse, in order.
ReadValues(dir, names) ==
    LET Readable(n) == dir[n] # Absent /\ ParsesAsValue(dir[n])
        Values(read) == [k \in DOMAIN read |-> dir[read[k]]]
    IN  Values(SelectSeq(names, Readable))

\* get_i64_field(session, "updatedAt").unwrap_or_default()
UpdatedAtOrDefault(value) == IF value.kind = "session" THEN value.updated_at ELSE 0

\* scan_sessions_from_directory: one result for each order of read_dir.
ScanSessionsFromDirectory(dir) ==
    {LET sessions == ReadValues(dir, order)
     IN  LimitSessions(SortDescBy(sessions,
             [i \in DOMAIN sessions |-> UpdatedAtOrDefault(sessions[i])])) :
       order \in Orderings({n \in DirEntries(dir) :
                               n # ChatIndexFileName /\ EndsWithJson(n)})}

\* The directory and the legacy file, together.
Files(dir, legacy) == [dir |-> dir, legacy |-> legacy]

\* migrate_legacy_chat_history_if_needed
MigrateLegacyChatHistoryIfNeeded(dir, legacy) ==
    LET has_index == dir[ChatIndexFileName] # Absent
        has_chat_files == \E n \in DirEntries(dir) :
                              n # ChatIndexFileName /\ EndsWithJson(n)
        legacy_sessions == IF legacy.kind = "list" THEN legacy.items ELSE <<>>
    IN  IF has_index \/ has_chat_files \/ legacy = Absent
        THEN Files(dir, legacy)
        ELSE Files(WriteSessionsAndIndex(dir, legacy_sessions).dir, Absent)

\* The sessions load_chat_history_from_paths reads through a parsed index.
SessionsOfIndex(dir, index_entries) ==
    LET sorted == SortIndexDesc(index_entries)
        taken == SubSeq(sorted, 1, IF Len(sorted) < MAX_SESSIONS
                                   THEN Len(sorted) ELSE MAX_SESSIONS)
    IN  ReadValues(dir, [k \in DOMAIN taken |-> SessionFileName(taken[k].id)])

\* load_chat_history_from_paths when every file operation succeeds: the
\* outcomes it can have.
LoadChatHistoryFromPaths(dir, legacy) ==
    LET m == MigrateLegacyChatHistoryIfNeeded(dir, legacy)
        loaded == IF ParsesAsIndex(m.dir[ChatIndexFileName])
                  THEN {SessionsOfIndex(m.dir, m.dir[ChatIndexFileName].items)}
                  ELSE ScanSessionsFromDirectory(m.dir)
    IN  {[dir |-> WriteSessionsAndIndex(m.dir, sessions).dir,
          legacy |-> m.legacy, result |-> sessions] : sessions \in loaded}

\* The command last run and the sessions passed to it.
StoreCall(op, sessions) == [op |-> op, sessions |-> sessions]

\* LicenseState: the default, and the file at storage_path when there is none.
LicenseState(license_key, device_token, device_name, is_activated, is_pro) ==
    [license_key |-> license_key, device_token |-> device_token,
     device_name |-> device_name, is_activated |-> is_activated, is_pro |-> is_pro]
LicenseStateDefault == LicenseState(None, None, None, FALSE, FALSE)
NoLicenseFile == [LicenseStateDefault EXCEPT !.license_key = "no file"]

\* No LicenseManager was made.
LicenseIdle == license_state = LicenseStateDefault /\ license_file = NoLicenseFile

\* No command on the chat history was run.
StoreIdle ==
    /\ chat_dir = <<>> /\ legacy_history = Absent
    /\ store_call = StoreCall("none", <<>>) /\ store_result = <<>>
    /\ writers = <<>>
    /\ LicenseIdle

-----------------------------------------------------------------------------
(* Spec: one call of chat or chat_stream                                   *)

Providers == {"claude", "gemini", "opencode"}

Init ==
    /\ provider \in Providers
    /\ mode \in {"chat", "chat_stream"}
    /\ pc = "start"
    /\ http = <<>>
    /\ result = NoResult
    /\ chan = "none"
    /\ task = "none"
    /\ stream = "none"
    /\ session_id = None
    /\ opencode_tools = NoTools
    /\ frames = <<>>
    /\ sent = <<>>
    /\ current_tool_id = None
    /\ tool_call_index = 0
    /\ pending_tool_calls = <<>>
    /\ bytes = <<>>
    /\ delivered = 0
    /\ buffer = <<>>
    /\ decoded = <<>>
    /\ queue = <<>>
    /\ received = <<>>
    /\ rx = "none"
    /\ outbox = Step(<<>>, FALSE)
    /\ lost = <<>>
    /\ messages \in Conversations
    /\ request = NoRequest
    /\ LinesIdle /\ StoreIdle

Next ==
    \/ ClaudeChat
    \/ ClaudeChatStream
    \/ GeminiChat
    \/ GeminiChatStream
    \/ OcCreateSession
    \/ OcFetchToolIds
    \/ OcPostMessage
    \/ OcConnectEventStream
    \/ OcPostPromptAsync

Spec == Init /\ [][Next]_vars

-----------------------------------------------------------------------------
(* SpecTask: the spawned task, from the return of a successful chat_stream *)

\* The round trips of a chat_stream that returned Ok(rx).
SetupTrips(p) ==
    CASE p = "claude" ->
            <<Trip("POST /v1/messages",
                   Reply(TRUE, 200, ClaudeBody("stream", None, None, <<>>, None)))>>
      [] p = "gemini" ->
            <<Trip("POST :streamGenerateContent",
                   Reply(TRUE, 200, ClaudeBody("stream", None, None, <<>>, None)))>>
      [] p = "opencode" ->
            <<Trip("POST /session", Reply(TRUE, 200, PlainBody("ok"))),
              Trip("GET /experimental/tool/ids",
                   Reply(TRUE, 200, [kind |-> "ok", ids |-> {"bash"}])),
              Trip("GET /event", Reply(TRUE, 200, PlainBody("text"))),
              Trip("POST /session/{id}/prompt_async", Reply(TRUE, 200, PlainBody("text")))>>

InitTask ==
    /\ provider \in Providers
    /\ mode = "chat_stream"
    /\ pc = "returned"
    /\ http = SetupTrips(provider)
    /\ result = OkReceiver
    /\ chan = "open"
    /\ task = "running"
    /\ stream = "open"
    /\ session_id = IF provider = "opencode" THEN ActiveSession ELSE None
    /\ opencode_tools = IF provider = "opencode" THEN SomeTools({"bash"}) ELSE NoTools
    /\ frames = <<>>
    /\ sent = <<>>
    /\ current_tool_id = None
    /\ tool_call_index = 0
    /\ pending_tool_calls = <<>>
    /\ bytes = <<>>
    /\ delivered = 0
    /\ buffer = <<>>
    /\ decoded = <<>>
    /\ queue = <<>>
    /\ received = <<>>
    /\ rx = "held"
    /\ outbox = Step(<<>>, FALSE)
    /\ lost = <<>>
    /\ messages = TaskMessages
    /\ request = TaskRequest(provider)
    /\ LinesIdle /\ StoreIdle

NextTask ==
    \/ ClaudeStreamLine
    \/ GeminiStreamLine
    \/ OcStreamFrame
    \/ StreamReadError
    \/ StreamEnd

SpecTask == InitTask /\ [][NextTask]_vars

-----------------------------------------------------------------------------
(* SpecSse: the byte level of the spawned task                             *)

\* The bytes of the model: 'x' (0x78), '\n' (0x0A), and the two bytes 0xC3
\* 0xA9 of the UTF-8 encoding of U+00E9.
Bytes == {120, 10, 195, 169}
IsContinuation(b) == b >= 128 /\ b < 192
IsLeadOfTwo(b) == b >= 192 /\ b < 224

\* The character of an ASCII byte.
Ascii(b) == IF b = 10 THEN "\n" ELSE "x"

\* String::from_utf8_lossy(&chunk): every well-formed sequence becomes its
\* character, every byte that is part of none becomes U+FFFD. The chunk is
\* converted on its own: what came before and what comes after it is unseen.
RECURSIVE Utf8Lossy(_)
Utf8Lossy(chunk) ==
    IF chunk = <<>> THEN <<>>
    ELSE IF Head(chunk) < 128 THEN <<Ascii(Head(chunk))>> \o Utf8Lossy(Tail(chunk))
    ELSE IF IsLeadOfTwo(Head(chunk)) /\ Len(chunk) >= 2 /\ IsContinuation(chunk[2])
    THEN <<"U+00E9">> \o Utf8Lossy(Tail(Tail(chunk)))
    ELSE <<"U+FFFD">> \o Utf8Lossy(Tail(chunk))

\* buffer.find("\n\n"): the index of the first blank line, 0 if there is none.
FindBlankLine(buf) ==
    LET hits == {i \in 1..(Len(buf) - 1) : buf[i] = "\n" /\ buf[i + 1] = "\n"}
    IN  IF hits = {} THEN 0 ELSE CHOOSE i \in hits : \A j \in hits : i <= j

\* while let Some(pos) = buffer.find("\n\n") { ... }: the frames cut off the
\* buffer, in order, and what stays in the buffer.
RECURSIVE ExtractFrames(_, _)
ExtractFrames(buf, out) ==
    LET pos == FindBlankLine(buf)
    IN  IF pos = 0 THEN [buffer |-> buf, frames |-> out]
        ELSE ExtractFrames(SubSeq(buf, pos + 2, Len(buf)),
                           Append(out, SubSeq(buf, 1, pos - 1)))

\* Some(Ok(chunk)): one chunk of the byte stream arrives
SseChunk ==
    /\ mode = "sse" /\ task = "running" /\ delivered < Len(bytes)
    /\ \E k \in 1..(Len(bytes) - delivered) :
          LET chunk == SubSeq(bytes, delivered + 1, delivered + k)
              r == ExtractFrames(buffer \o Utf8Lossy(chunk), <<>>)
          IN  /\ delivered' = delivered + k
              /\ buffer' = r.buffer
              /\ decoded' = decoded \o r.frames
    /\ UNCHANGED <<callVars, taskVars, bytes>>
    /\ UNCHANGED stream
    /\ UNCHANGED chanVars
    /\ UNCHANGED reqVars
    /\ UNCHANGED <<lineVars, storeVars>>

\* SseEnd of a task that takes what is left in the buffer for a last frame.
SseEndFlush ==
    /\ mode = "sse" /\ task = "running" /\ delivered = Len(bytes)
    /\ task' = "ended"
    /\ chan' = "closed"
    /\ decoded' = IF buffer = <<>> THEN decoded ELSE Append(decoded, buffer)
    /\ buffer' = <<>>
    /\ UNCHANGED <<provider, mode, pc, http, result, session_id, opencode_tools,
                   taskVars, bytes, delivered>>
    /\ stream' = "ended"
    /\ UNCHANGED chanVars
    /\ UNCHANGED reqVars
    /\ UNCHANGED <<lineVars, storeVars>>

\* None: the byte stream has ended
SseEnd ==
    /\ mode = "sse" /\ task = "running" /\ delivered = Len(bytes)
    /\ task' = "ended"
    /\ chan' = "closed"
    /\ UNCHANGED <<provider, mode, pc, http, result, session_id, opencode_tools,
                   taskVars, sseVars>>
    /\ stream' = "ended"
    /\ UNCHANGED chanVars
    /\ UNCHANGED reqVars
    /\ UNCHANGED <<lineVars, storeVars>>

InitSse ==
    /\ provider \in Providers
    /\ mode = "sse"
    /\ pc = "returned"
    /\ http = SetupTrips(provider)
    /\ result = OkReceiver
    /\ chan = "open"
    /\ task = "running"
    /\ stream = "open"
    /\ session_id = IF provider = "opencode" THEN ActiveSession ELSE None
    /\ opencode_tools = IF provider = "opencode" THEN SomeTools({"bash"}) ELSE NoTools
    /\ frames = <<>>
    /\ sent = <<>>
    /\ current_tool_id = None
    /\ tool_call_index = 0
    /\ pending_tool_calls = <<>>
    /\ bytes \in UNION {[1..n -> Bytes] : n \in 0..MaxBytes}
    /\ delivered = 0
    /\ buffer = <<>>
    /\ decoded = <<>>
    /\ queue = <<>>
    /\ received = <<>>
    /\ rx = "held"
    /\ outbox = Step(<<>>, FALSE)
    /\ lost = <<>>
    /\ messages = TaskMessages
    /\ request = TaskRequest(provider)
    /\ LinesIdle /\ StoreIdle

NextSse ==
    \/ SseChunk
    \/ SseEnd

SpecSse == InitSse /\ [][NextSse]_vars

-----------------------------------------------------------------------------
(* The chunks a task sends for a whole list of data lines (frames)         *)

\* The loop of the task of claude.rs over the data lines it is given.
RECURSIVE ClaudeRun(_, _, _)
ClaudeRun(evs, cur, out) ==
    IF evs = <<>> THEN out
    ELSE LET step == ClaudeInterpret(Head(evs), cur)
         IN  IF step.return THEN out \o step.chunks
             ELSE ClaudeRun(Tail(evs), ClaudeNextToolId(Head(evs), cur), out \o step.chunks)

\* The loop of the task of gemini.rs over the data lines it is given.
RECURSIVE GeminiRun(_, _, _, _)
GeminiRun(resps, idx, pending, out) ==
    IF resps = <<>> THEN out
    ELSE LET r == GeminiInterpret(Head(resps), idx, pending)
         IN  IF r.step.return THEN out \o r.step.chunks
             ELSE GeminiRun(Tail(resps), r.state.tool_call_index,
                            r.state.pending_tool_calls, out \o r.step.chunks)

\* The loop of the task of opencode.rs over the frames it is given.
RECURSIVE OcRun(_, _, _)
OcRun(frs, target, out) ==
    IF frs = <<>> THEN out
    ELSE LET step == OcInterpret(Head(frs), target)
         IN  IF step.return THEN out \o step.chunks
             ELSE OcRun(Tail(frs), target, out \o step.chunks)

\* The chunks the task of adapter p sends for the lines (frames) fs.
Run(p, fs) ==
    CASE p = "claude"   -> ClaudeRun(fs, None, <<>>)
      [] p = "gemini"   -> GeminiRun(fs, 0, <<>>, <<>>)
      [] p = "opencode" -> OcRun(fs, ActiveSession, <<>>)

\* Whether a data line (frame) deserializes into the event type of adapter p.
Deserializes(p, f) ==
    f.valid /\ (p = "opencode" => OcTypedOk(OcUnwrap(f)))

\* The indices of the chunks of a kind in a list of chunks.
IndicesOf(chunks, kinds) == {i \in 1..Len(chunks) : chunks[i].kind \in kinds}

-----------------------------------------------------------------------------
(* Properties                                                              *)

\* C1: in every stream, every ToolCallDelta chunk carries the id of a
\* ToolCallStart chunk that was sent earlier on the same stream.
C1_DeltaAfterStart ==
    \A i \in IndicesOf(sent, {"ToolCallDelta"}) :
        \E j \in IndicesOf(sent, {"ToolCallStart"}) : j < i /\ sent[j].id = sent[i].id

\* C1 happens: an Anthropic-style stream sent a ToolCallStart for one data
\* line and a ToolCallDelta for a later one.
C1_Witness ==
    /\ provider = "claude" /\ Len(frames) >= 2
    /\ sent # <<>> /\ Last(sent).kind = "ToolCallDelta"
    /\ Last(frames).delta = "input_json_delta"

\* C2 as claimed: once a Done or an Error chunk was sent, no further chunk is
\* sent on the stream, so only the last chunk of a stream is Done or Error.
C2_DoneErrorTerminal ==
    \A i \in IndicesOf(sent, {"Done", "Error"}) : i = Len(sent)

\* C3 as claimed: a ChatResponse of chat with at least one tool call has
\* finish_reason ToolCalls.
C3_ToolCallsFinishReason ==
    (mode = "chat" /\ result.tag = "Ok" /\ result.tool_calls # <<>>)
        => result.finish_reason = "ToolCalls"

\* The frames the decoder yields when the whole byte stream is one chunk.
DecodeWhole(bs) == ExtractFrames(Utf8Lossy(bs), <<>>).frames

\* C4 as claimed: however the byte stream was cut into chunks, once all of
\* it was delivered the decoded frames are those of the single-chunk delivery.
C4_ChunkSizeIndependent ==
    (mode = "sse" /\ delivered = Len(bytes)) => decoded = DecodeWhole(bytes)

\* Whether a round trip got a reply with a success status.
TripOk(t) == t.send_ok /\ IsSuccess(t.status)

\* The indices of the round trips for a request.
TripsFor(req) == {i \in 1..Len(http) : http[i].req = req}

\* C5: the local-orchestrator chat_stream posts the async prompt only after
\* GET /event was answered with a 2xx status, and never posts it when the
\* event-stream request failed or was answered with another status.
C5_EventStreamBeforePrompt ==
    (provider = "opencode" /\ mode = "chat_stream") =>
        /\ \A i \in TripsFor("POST /session/{id}/prompt_async") :
              \E j \in TripsFor("GET /event") : j < i /\ TripOk(http[j])
        /\ (\E j \in TripsFor("GET /event") : ~TripOk(http[j]))
              => TripsFor("POST /session/{id}/prompt_async") = {}

\* C5 happens: the prompt was posted, after the event stream was connected.
C5_Witness ==
    /\ provider = "opencode" /\ mode = "chat_stream"
    /\ TripsFor("POST /session/{id}/prompt_async") # {}
    /\ result.tag = "Ok"

\* C6: for a frame of the local-orchestrator stream that is JSON, with the
\* session id taken from the unwrapped event at properties.sessionID, else
\* properties.part.sessionID, else properties.info.sessionID: an id that is
\* not the active session's sends no chunk and changes nothing of the task;
\* with no id the event is interpreted (if it deserializes, the chunks of its
\* dispatch are sent and the task returns when the dispatch says so).
C6_SessionFilter ==
    [][(provider = "opencode" /\ Len(frames') = Len(frames) + 1 /\ Last(frames').valid) =>
         LET p == Last(frames').payload
             id == IF p.sid_props # None THEN p.sid_props
                   ELSE IF p.sid_part # None THEN p.sid_part
                   ELSE p.sid_info
         IN  /\ id \notin {None, session_id} =>
                   /\ sent' = sent
                   /\ task' = task
                   /\ chan' = chan
             /\ (id = None /\ OcTypedOk(p)) =>
                   /\ sent' = sent \o OcDispatch(p, session_id).chunks
                   /\ (task' = "ended") = OcDispatch(p, session_id).return
       ]_vars

\* C6 happens: an enveloped event without any session id was interpreted,
\* then an event whose properties.part.sessionID is another session's (and
\* whose properties.info.sessionID is the active one) was dropped.
C6_Witness ==
    /\ provider = "opencode" /\ Len(frames) = 2
    /\ frames[1] = OcFrame(TRUE, TRUE, OcText(None, None, None, FALSE, "a"))
    /\ frames[2] = OcFrame(TRUE, FALSE, OcText(None, OtherSession, ActiveSession, FALSE, "a"))
    /\ sent = <<Content("a")>>
    /\ task = "running"

\* The lines (frames) of the stream so far that deserialize.
ValidFrames ==
    LET Ok(f) == Deserializes(provider, f) IN SelectSeq(frames, Ok)

\* C7: a line (frame) that is not JSON or does not deserialize sends no chunk
\* and does not end the task: the chunks sent are those of the same stream
\* without these lines (followed by the Error of a read error, if one
\* occurred), and a task that returned on a line returned on one that
\* deserializes.
C7_InvalidFrameSkipped ==
    (mode = "chat_stream" /\ task # "none") =>
        /\ sent = Run(provider, ValidFrames)
                    \o (IF stream = "error" THEN ReadErrorChunks ELSE <<>>)
        /\ (task = "ended" /\ stream = "open") =>
               (frames # <<>> /\ Deserializes(provider, Last(frames)))

\* C7 happens: the first line did not deserialize, the second did and sent a
\* chunk, and the task is still running.
C7_Witness ==
    /\ Len(frames) = 2
    /\ ~Deserializes(provider, frames[1])
    /\ Deserializes(provider, frames[2])
    /\ Len(sent) = 1
    /\ task = "running"

\* C8 as claimed: when a stream that sent a ToolCallStart has ended, the
\* last Done chunk it sent carries ToolCalls.
C8_FinalDoneToolCalls ==
    (task = "ended" /\ IndicesOf(sent, {"ToolCallStart"}) # {}) =>
        \A i \in IndicesOf(sent, {"Done"}) :
            (\A j \in IndicesOf(sent, {"Done"}) : j <= i)
                => sent[i].finish_reason = "ToolCalls"

\* The round trips chat_stream needs for its stream (the probe of the tool
\* ids is allowed to fail).
Required(t) == t.req # "GET /experimental/tool/ids"

\* C9: chat_stream returns Err without a channel and without a task whenever
\* a request it needs fails or is answered with a status that is not 2xx (or
\* the session cannot be created); a channel, a task and Ok(rx) exist only
\* after every such request was answered with a success status.
C9_SetupFailuresSynchronous ==
    mode = "chat_stream" =>
        /\ result.tag = "Err" => (chan = "none" /\ task = "none" /\ pc = "returned")
        /\ (\E i \in 1..Len(http) : Required(http[i]) /\ ~TripOk(http[i]))
              => result.tag = "Err"
        /\ (chan # "none" \/ task # "none" \/ result.tag = "Ok") =>
              /\ result = OkReceiver /\ chan = "open" /\ task = "running"
              /\ \A i \in 1..Len(http) : Required(http[i]) => TripOk(http[i])
              /\ provider = "opencode" =>
                    (TripsFor("POST /session") # {} /\ TripsFor("GET /event") # {}
                     /\ TripsFor("POST /session/{id}/prompt_async") # {})

\* C9 happens: the local-orchestrator chat_stream returned Err for a failed
\* prompt post, after the session and the event stream were there.
C9_Witness ==
    /\ provider = "opencode" /\ mode = "chat_stream"
    /\ Len(http) = 4 /\ ~TripOk(http[4])
    /\ result.tag = "Err"

\* A frame the vendor sends to report a failure of this stream: an "error"
\* event with its error object, a response with an error object, a
\* session.error event of the active session.
IsVendorError(p, f) ==
    f.valid /\
    CASE p = "claude"   -> f.event_type = "error" /\ f.error # None
      [] p = "gemini"   -> f.error # None
      [] p = "opencode" -> f.payload.type = "session.error"
                           /\ f.payload.sid_props = ActiveSession

-----------------------------------------------------------------------------
(* C11: which errors are marked retryable                                  *)

\* The round trip that made the call return its error: the last one.
CausedByTransport == ~Last(http).send_ok
CausedByRetryableStatus == Last(http).send_ok /\ RetryableStatus(Last(http).status)

\* C11: a returned AIProviderError is retryable if and only if the request
\* that caused it could not be sent, or was answered with status 429 or a
\* status of 500 and above.
C11_RetryableIff ==
    (pc = "returned" /\ result.tag = "Err") =>
        (result.retryable <=> (CausedByTransport \/ CausedByRetryableStatus))

-----------------------------------------------------------------------------
(* SpecChan: the spawned task, the channel and the consumer                *)
(*                                                                         *)
(* SpecTask records what the task gives to tx.send. SpecChan adds the      *)
(* channel itself: every tx.send(..).await is a step of its own, which     *)
(* waits while the channel is full, and the consumer that holds rx takes   *)
(* chunks or drops rx at any time.                                         *)

\* mpsc::channel(100)
ChannelCapacity == 100

\* The task of SpecChan is given data lines (frames) until it has sent this
\* many chunks.
MaxChanChunks == 101

\* The data lines (frames) the byte stream can hold at line n: one that goes
\* on (a text delta with the text n; for gemini.rs a function call, which
\* sends two chunks), and one that ends the stream.
ChanLines(p, n) ==
    CASE p = "claude" ->
            {ClaudeBlockDelta("text_delta", ToString(n)), ClaudeMessageStop}
      [] p = "gemini" ->
            {GeminiResponse(TRUE, TRUE,
                 <<GeminiCandidate(TRUE, <<GeminiPart(None, "query")>>, None)>>, None),
             GeminiResponse(TRUE, FALSE, <<>>, "quota")}
      [] p = "opencode" ->
            {OcFrame(TRUE, FALSE, OcText(None, S1, None, FALSE, ToString(n))),
             OcFrame(TRUE, FALSE, OcStatus(S1, "idle"))}

\* What the handler of one line does, for the adapter p.
LineStep(p, f, cur, idx, pending, target) ==
    CASE p = "claude"   -> ClaudeInterpret(f, cur)
      [] p = "gemini"   -> GeminiInterpret(f, idx, pending).step
      [] p = "opencode" -> OcInterpret(f, target)

\* ChanHasRoom of a channel without a capacity.
ChanHasRoomUnbounded(q) == TRUE

\* ChanHasRoom of a channel that never frees a permit.
ChanHasRoomNever(q) == FALSE

\* Whether the channel has a free permit: send waits while it has none.
ChanHasRoom(q) == Len(q) < ChannelCapacity

\* OutboxAfterFailedSend of a task that returns when a send fails.
OutboxReturnOnFailedSend(ob) == Step(<<>>, TRUE)

\* let _ = tx.send(..).await: the Err of a send to a dropped receiver is
\* thrown away and the handler goes on with what follows the send.
OutboxAfterFailedSend(ob) == Step(Tail(ob.chunks), ob.return)

\* The task takes the next data line (frame) and starts its handler.
ChanTakeLine ==
    /\ mode = "chan" /\ task = "running" /\ stream = "open"
    /\ outbox = Step(<<>>, FALSE)
    /\ Len(sent) < MaxChanChunks
    /\ \E f \in ChanLines(provider, Len(frames) + 1) :
          /\ frames' = Append(frames, f)
          /\ outbox' = LineStep(provider, f, current_tool_id, tool_call_index,
                                pending_tool_calls, session_id)
          /\ current_tool_id' =
                IF provider = "claude" THEN ClaudeNextToolId(f, current_tool_id)
                ELSE current_tool_id
          /\ tool_call_index' =
                IF provider = "gemini"
                THEN GeminiInterpret(f, tool_call_index, pending_tool_calls).state.tool_call_index
                ELSE tool_call_index
          /\ pending_tool_calls' =
                IF provider = "gemini"
                THEN GeminiInterpret(f, tool_call_index, pending_tool_calls).state.pending_tool_calls
                ELSE pending_tool_calls
    /\ UNCHANGED <<callVars, stream, sent, sseVars, queue, received, rx, lost>>
    /\ UNCHANGED reqVars
    /\ UNCHANGED <<lineVars, storeVars>>

\* tx.send(chunk).await completes: the chunk is in the channel, or, when the
\* receiver was dropped, the send returned Err.
ChanSend ==
    /\ mode = "chan" /\ task = "running" /\ outbox.chunks # <<>>
    /\ sent' = Append(sent, Head(outbox.chunks))
    /\ IF rx = "held"
       THEN /\ ChanHasRoom(queue)
            /\ queue' = Append(queue, Head(outbox.chunks))
            /\ outbox' = Step(Tail(outbox.chunks), outbox.return)
            /\ lost' = lost
       ELSE /\ lost' = <<Head(outbox.chunks)>>
            /\ outbox' = OutboxAfterFailedSend(outbox)
            /\ queue' = queue
    /\ UNCHANGED <<callVars, stream, frames, current_tool_id, tool_call_index,
                   pending_tool_calls, sseVars, received, rx>>
    /\ UNCHANGED reqVars
    /\ UNCHANGED <<lineVars, storeVars>>

\* return; of a handler: the task ends and tx is dropped.
ChanReturn ==
    /\ mode = "chan" /\ task = "running" /\ outbox = Step(<<>>, TRUE)
    /\ task' = "ended"
    /\ chan' = "closed"
    /\ outbox' = Step(<<>>, FALSE)
    /\ UNCHANGED <<provider, mode, pc, http, result, session_id, opencode_tools,
                   stream, taskVars, sseVars, queue, received, rx, lost>>
    /\ UNCHANGED reqVars
    /\ UNCHANGED <<lineVars, storeVars>>

\* Some(Err(e)): the read of the byte stream fails
ChanReadError ==
    /\ mode = "chan" /\ task = "running" /\ stream = "open"
    /\ outbox = Step(<<>>, FALSE)
    /\ outbox' = Step(ReadErrorChunks, TRUE)
    /\ stream' = "error"
    /\ UNCHANGED <<callVars, taskVars, sseVars, queue, received, rx, lost>>
    /\ UNCHANGED reqVars
    /\ UNCHANGED <<lineVars, storeVars>>

\* None: the byte stream ends, the while loop and the task with it
ChanStreamEnd ==
    /\ mode = "chan" /\ task = "running" /\ stream = "open"
    /\ outbox = Step(<<>>, FALSE)
    /\ task' = "ended"
    /\ chan' = "closed"
    /\ stream' = "ended"
    /\ UNCHANGED <<provider, mode, pc, http, result, session_id, opencode_tools,
                   taskVars, sseVars, chanVars>>
    /\ UNCHANGED reqVars
    /\ UNCHANGED <<lineVars, storeVars>>

\* rx.recv().await of the consumer gives the oldest pending chunk
ConsumerRecv ==
    /\ mode = "chan" /\ rx = "held" /\ queue # <<>>
    /\ received' = Append(received, Head(queue))
    /\ queue' = Tail(queue)
    /\ UNCHANGED <<callVars, stream, taskVars, sseVars, rx, outbox, lost>>
    /\ UNCHANGED reqVars
    /\ UNCHANGED <<lineVars, storeVars>>

\* The consumer drops rx: the channel is closed for sending and what was
\* pending in it is dropped.
ConsumerDrop ==
    /\ mode = "chan" /\ rx = "held"
    /\ rx' = "dropped"
    /\ queue' = <<>>
    /\ UNCHANGED <<callVars, stream, taskVars, sseVars, received, outbox, lost>>
    /\ UNCHANGED reqVars
    /\ UNCHANGED <<lineVars, storeVars>>

InitChan ==
    /\ provider \in Providers
    /\ mode = "chan"
    /\ pc = "returned"
    /\ http = SetupTrips(provider)
    /\ result = OkReceiver
    /\ chan = "open"
    /\ task = "running"
    /\ stream = "open"
    /\ session_id = IF provider = "opencode" THEN ActiveSession ELSE None
    /\ opencode_tools = IF provider = "opencode" THEN SomeTools({"bash"}) ELSE NoTools
    /\ frames = <<>>
    /\ sent = <<>>
    /\ current_tool_id = None
    /\ tool_call_index = 0
    /\ pending_tool_calls = <<>>
    /\ bytes = <<>>
    /\ delivered = 0
    /\ buffer = <<>>
    /\ decoded = <<>>
    /\ queue = <<>>
    /\ received = <<>>
    /\ rx = "held"
    /\ outbox = Step(<<>>, FALSE)
    /\ lost = <<>>
    /\ messages = TaskMessages
    /\ request = TaskRequest(provider)
    /\ LinesIdle /\ StoreIdle

NextChan ==
    \/ ChanTakeLine
    \/ ChanSend
    \/ ChanReturn
    \/ ChanReadError
    \/ ChanStreamEnd
    \/ ConsumerRecv
    \/ ConsumerDrop

SpecChan == InitChan /\ [][NextChan]_vars

\* C12: what the consumer that holds rx received, followed by what is pending
\* in the channel, is exactly what the task sent, in order; the channel never
\* holds more than 100 chunks; and while it holds 100 and the task is at a
\* send, the task takes no line, sends nothing and does not end: the only
\* step that changes anything of it is the consumer taking or dropping.
C12_FifoBounded ==
    /\ [](mode = "chan" =>
            /\ Len(queue) <= ChannelCapacity
            /\ (rx = "held" => received \o queue = sent))
    /\ [][(rx = "held" /\ Len(queue) = ChannelCapacity /\ outbox.chunks # <<>>) =>
            (frames' = frames /\ sent' = sent /\ outbox' = outbox /\ task' = task)]_vars

\* C12 happens: the consumer took chunks, the channel is full again and the
\* task waits at its next send.
C12_Witness ==
    /\ rx = "held"
    /\ received # <<>>
    /\ Len(queue) = ChannelCapacity
    /\ outbox.chunks # <<>>

\* Whether the handler of the line (frame) f returns from the task.
Terminates(p, f) == LineStep(p, f, None, 0, <<>>, ActiveSession).return

\* C13: once the receiver is dropped, a send changes nothing but the task's
\* own progress: the chunk is lost, nothing is received, the task does not
\* end and the result of chat_stream stays; and a task has ended only
\* because the byte stream ended, a read failed, or the last line it took
\* was a terminating vendor event.
C13_DroppedReceiverKeepsReading ==
    /\ [](mode = "chan" /\ task = "ended" =>
            \/ stream \in {"ended", "error"}
            \/ (frames # <<>> /\ Terminates(provider, Last(frames))))
    /\ [][(rx = "dropped" /\ sent' # sent) =>
            (/\ lost' = <<Last(sent')>>
             /\ received' = received /\ queue' = queue
             /\ task' = "running" /\ result' = result
             /\ outbox'.return = outbox.return)]_vars

\* C13 happens: a send failed after the receiver was dropped, and the task
\* of claude.rs has taken the next line and is at its next send.
C13_Witness ==
    /\ provider = "claude"
    /\ rx = "dropped"
    /\ lost # <<>>
    /\ task = "running"
    /\ outbox.chunks # <<>>

-----------------------------------------------------------------------------
(* C14, C15, C18, C20: the vendor request and the response of chat         *)

\* One entry of a conversation as a request carries it: the role of the
\* input message and its text.
Entry(role, text) == [role |-> role, content |-> text]

\* The messages of the input that have a role of the history (User,
\* Assistant, Tool) and a text, in input order. A tool result is written the
\* way the request of gemini.rs holds it.
RECURSIVE HistoryOf(_, _)
HistoryOf(p, msgs) ==
    IF msgs = <<>> THEN <<>>
    ELSE LET msg == Head(msgs) IN
         (IF msg.role # "System" /\ msg.content # None /\ msg.content # ""
          THEN <<Entry(msg.role, IF p = "gemini" /\ msg.role = "Tool"
                                 THEN GeminiToolResponse(msg.content) ELSE msg.content)>>
          ELSE <<>>) \o HistoryOf(p, Tail(msgs))

\* The entries the blocks of one AnthropicMessage carry.
RECURSIVE ClaudeBlockEntries(_)
ClaudeBlockEntries(bs) ==
    IF bs = <<>> THEN <<>>
    ELSE (CASE Head(bs).type = "text"        -> <<Entry("Assistant", Head(bs).text)>>
            [] Head(bs).type = "tool_result" -> <<Entry("Tool", Head(bs).text)>>
            [] OTHER                         -> <<>>) \o ClaudeBlockEntries(Tail(bs))

\* The entries the parts of one GeminiContent carry.
RECURSIVE GeminiPartEntries(_, _)
GeminiPartEntries(role, ps) ==
    IF ps = <<>> THEN <<>>
    ELSE (IF Head(ps).text # None
          THEN <<Entry(IF role = "model" THEN "Assistant" ELSE "User", Head(ps).text)>>
          ELSE IF Head(ps).fr_name # None THEN <<Entry("Tool", Head(ps).fr_response)>>
          ELSE <<>>) \o GeminiPartEntries(role, Tail(ps))

\* The entries the ordinary message list of a request carries.
RECURSIVE ListEntries(_, _)
ListEntries(p, ms) ==
    IF ms = <<>> THEN <<>>
    ELSE (IF p = "claude"
          THEN (IF Head(ms).text # None THEN <<Entry("User", Head(ms).text)>>
                ELSE ClaudeBlockEntries(Head(ms).blocks))
          ELSE GeminiPartEntries(Head(ms).role, Head(ms).parts))
         \o ListEntries(p, Tail(ms))

\* The entries a request carries outside its system slot.
Carried(p, req) ==
    IF p = "opencode"
    THEN (IF req.prompt # "" THEN <<Entry("User", req.prompt)>> ELSE <<>>)
    ELSE ListEntries(p, req.messages)

\* Whether the list a is a subsequence of the list b.
RECURSIVE IsSubsequence(_, _)
IsSubsequence(a, b) ==
    IF a = <<>> THEN TRUE
    ELSE IF b = <<>> THEN FALSE
    ELSE IF Head(a) = Head(b) THEN IsSubsequence(Tail(a), Tail(b))
    ELSE IsSubsequence(a, Tail(b))

\* C14: the request carries every User, Assistant and Tool message of the
\* input that has a text, in input order.
C14_FullHistoryInRequest ==
    request.built => IsSubsequence(HistoryOf(provider, messages), Carried(provider, request))

\* A conversation of one System message and one User message, both with a
\* text, in either order.
OneSystemOneUser(msgs) ==
    /\ Len(msgs) = 2
    /\ {msgs[1].role, msgs[2].role} = {"System", "User"}
    /\ msgs[1].content # None /\ msgs[2].content # None
TextOfRole(msgs, role) ==
    LET i == CHOOSE k \in 1..Len(msgs) : msgs[k].role = role IN msgs[i].content

\* C15: for one System and one User message the system slot of the request
\* holds the system text and the ordinary message list (the prompt of
\* opencode.rs) holds the user text and nothing else.
C15_SystemSlotOnly ==
    (request.built /\ OneSystemOneUser(messages)) =>
        /\ request.system = TextOfRole(messages, "System")
        /\ CASE provider = "claude" ->
                  request.messages =
                      <<AnthropicMessage("user", TextOfRole(messages, "User"), <<>>)>>
             [] provider = "gemini" ->
                  request.messages =
                      <<GeminiContent("user",
                          <<GeminiRequestPart(TextOfRole(messages, "User"),
                                              None, None, None, None)>>)>>
             [] provider = "opencode" ->
                  request.messages = <<>> /\ request.prompt = TextOfRole(messages, "User")

\* C15 happens: a request was built from a System and a User message.
C15_Witness ==
    /\ request.built
    /\ OneSystemOneUser(messages)
    /\ messages[1].role = "System"
    /\ provider = "opencode"

\* The round trip of the tool-listing probe of opencode.rs: the second one.
ProbeReturnedTools(t) ==
    t.send_ok /\ IsSuccess(t.status) /\ t.body.kind = "ok" /\ t.body.ids # {}

\* C18: the prompt request of opencode.rs has a tools field exactly when the
\* probe was answered 2xx with a parsable list that is not empty, and then
\* the field maps every returned id to true; whatever the probe's reply, the
\* call goes on to its next request.
C18_ToolsFieldFromProbe ==
    provider = "opencode" =>
        /\ request.built =>
              /\ Len(http) >= 3
              /\ http[2].req = "GET /experimental/tool/ids"
              /\ request.tools = IF ProbeReturnedTools(http[2])
                                 THEN SomeTools(http[2].body.ids) ELSE NoTools
        /\ (Len(http) = 2 /\ http[2].req = "GET /experimental/tool/ids") =>
              (result = NoResult /\ pc \in {"message", "event"})

\* C18 happens: the probe returned an empty list and the prompt request was
\* sent without a tools field.
C18_Witness ==
    /\ provider = "opencode"
    /\ request.built
    /\ http[2].send_ok /\ http[2].status = 200
    /\ http[2].body.kind = "ok" /\ http[2].body.ids = {}
    /\ ~request.tools.some

\* Scenario A: messages = [System("be terse"), User("2+2?")] and the response
\* {"content":[{"type":"text","text":"4"}],"stop_reason":"end_turn"}
ScenarioA_Messages ==
    <<ChatMessage("System", "be terse", <<>>, None), ChatMessage("User", "2+2?", <<>>, None)>>
ScenarioA_Body == ClaudeBody("response", None, None, <<ClaudeText("4")>>, "end_turn")

\* The blocks of a type, in the order of the response.
BlocksOfType(bs, type) == SelectSeq(bs, LAMBDA b : b.type = type)

\* C20: chat of claude.rs builds for Scenario A a request with system "be
\* terse" and the one user message, and turns the response of Scenario A into
\* ChatResponse{content: "4", tool_calls: [], finish_reason: Stop}; for every
\* 2xx response without an error object the content is the concatenation of
\* the text blocks in order, absent when that is empty, and tool_calls are
\* the tool-use blocks in order.
C20_ScenarioA ==
    (provider = "claude" /\ mode = "chat" /\ pc = "returned") =>
        LET t == Last(http)
            texts == BlocksOfType(t.body.content, "text")
            uses == BlocksOfType(t.body.content, "tool_use")
        IN  /\ messages = ScenarioA_Messages =>
                  /\ request.system = "be terse"
                  /\ request.messages = <<AnthropicMessage("user", "2+2?", <<>>)>>
            /\ (t.send_ok /\ t.status = 200 /\ t.body = ScenarioA_Body) =>
                  result = ChatResponse("4", <<>>, "Stop")
            /\ (t.send_ok /\ IsSuccess(t.status) /\ t.body.kind = "response"
                /\ t.body.error = None) =>
                  /\ result.tag = "Ok"
                  /\ result.content =
                        (IF \A i \in 1..Len(texts) : texts[i].text = "" THEN None
                         ELSE Concat([i \in 1..Len(texts) |-> texts[i].text]))
                  /\ Len(result.tool_calls) = Len(uses)
                  /\ \A i \in 1..Len(uses) : result.tool_calls[i].id = uses[i].id

\* C20 happens: Scenario A, request and response.
C20_Witness ==
    /\ provider = "claude" /\ mode = "chat" /\ pc = "returned"
    /\ messages = ScenarioA_Messages
    /\ Last(http).body = ScenarioA_Body
    /\ result = ChatResponse("4", <<>>, "Stop")


-----------------------------------------------------------------------------
(* The Generative-style stream seen from its frames                        *)

\* The candidates of the data lines so far, in the order the task meets them.
RECURSIVE FlatCandidates(_)
FlatCandidates(frs) ==
    IF frs = <<>> THEN <<>>
    ELSE (IF Head(frs).valid /\ Head(frs).has_candidates
          THEN Head(frs).candidates ELSE <<>>) \o FlatCandidates(Tail(frs))

HasFunctionCall(c) ==
    c.has_content /\ \E i \in DOMAIN c.parts : c.parts[i].function_call # None

IsDone(ch) == ch.kind = "Done"
IsToolCallStart(ch) == ch.kind = "ToolCallStart"

\* The finish reasons of the Done chunks sent, in order.
DoneReasons(chunks) ==
    [i \in 1..Len(SelectSeq(chunks, IsDone)) |-> SelectSeq(chunks, IsDone)[i].finish_reason]

\* For the candidates with a finish reason, in order: ToolCalls if a function
\* call appeared in that candidate or before it, else the mapped vendor reason.
ExpectedDoneReasons(cs) ==
    LET Finishing(k) == cs[k].finish_reason # None
        ks == SelectSeq([k \in 1..Len(cs) |-> k], Finishing)
    IN  [i \in 1..Len(ks) |->
            IF \E j \in 1..ks[i] : HasFunctionCall(cs[j])
            THEN "ToolCalls" ELSE GeminiParseFinishReason(cs[ks[i]].finish_reason)]

\* C16: in a Generative-style stream every Done sent after a function-call
\* part has appeared (same frame or an earlier one) carries ToolCalls whatever
\* the vendor reason, and a Done with no function call before it carries the
\* mapped vendor reason.
C16_DoneAfterFunctionCall ==
    provider = "gemini" => DoneReasons(sent) = ExpectedDoneReasons(FlatCandidates(frames))

\* A function call in the first frame, a candidate finishing with STOP in the
\* second: the Done carries ToolCalls.
C16_Witness ==
    /\ provider = "gemini" /\ Len(frames) = 2
    /\ \E j \in DOMAIN FlatCandidates(<<frames[1]>>) :
          HasFunctionCall(FlatCandidates(<<frames[1]>>)[j])
    /\ FlatCandidates(<<frames[2]>>) = <<GeminiCandidate(TRUE, <<GeminiPart("Hello", None)>>, "STOP")>>
    /\ Last(sent) = Done("ToolCalls")


\* The names of the function-call parts of the candidates, in order.
RECURSIVE FunctionCallNames(_)
FunctionCallNames(cs) ==
    IF cs = <<>> THEN <<>>
    ELSE LET ps == IF Head(cs).has_content THEN Head(cs).parts ELSE <<>>
             HasCall(p) == p.function_call # None
         IN  [i \in 1..Len(SelectSeq(ps, HasCall)) |-> SelectSeq(ps, HasCall)[i].function_call]
             \o FunctionCallNames(Tail(cs))

\* ids[k] is call_(k-1) for every k, so the ids increase and none is reused.
SequentialIds(ids) ==
    /\ \A k \in DOMAIN ids : ids[k] = "call_" \o ToString(k - 1)
    /\ \A j, k \in DOMAIN ids : j # k => ids[j] # ids[k]

\* C17: the Generative-style adapter gives the k-th function-call part of one
\* whole stream (across frames and candidates) or of one chat response the id
\* call_k, k from 0: the ids increase in emission order and no two
\* ToolCallStart chunks of a stream share one.
C17_SequentialCallIds ==
    /\ provider = "gemini" =>
          LET starts == SelectSeq(sent, IsToolCallStart)
              names  == FunctionCallNames(FlatCandidates(frames))
          IN  /\ Len(starts) = Len(names)
              /\ \A k \in DOMAIN starts : starts[k].name = names[k]
              /\ SequentialIds([k \in DOMAIN starts |-> starts[k].id])
    /\ \A r \in GeminiReplies :
          GeminiChatResult(r).tag = "Ok" =>
             LET calls == GeminiChatResult(r).tool_calls
             IN  /\ Len(calls) = Len(FunctionCallNames(<<Head(r.body.response.candidates)>>))
                 /\ SequentialIds([k \in DOMAIN calls |-> calls[k].id])

\* Function calls in two frames of one stream: the third ToolCallStart is call_2.
C17_Witness ==
    /\ provider = "gemini" /\ Len(frames) = 2
    /\ FunctionCallNames(FlatCandidates(<<frames[1]>>)) # <<>>
    /\ FunctionCallNames(FlatCandidates(<<frames[2]>>)) # <<>>
    /\ Len(SelectSeq(sent, IsToolCallStart)) >= 3
    /\ SelectSeq(sent, IsToolCallStart)[3].id = "call_2"


\* What the claim expects one frame to send, Content and Done only: for each
\* candidate the non-empty texts of its parts in order, then a Done marker if
\* the candidate has a finish reason.
RECURSIVE NonEmptyTexts(_)
NonEmptyTexts(ps) ==
    IF ps = <<>> THEN <<>>
    ELSE (IF Head(ps).text \notin {None, ""} THEN <<Head(ps).text>> ELSE <<>>)
         \o NonEmptyTexts(Tail(ps))

RECURSIVE ExpectedTextAndDone(_)
ExpectedTextAndDone(cs) ==
    IF cs = <<>> THEN <<>>
    ELSE NonEmptyTexts(IF Head(cs).has_content THEN Head(cs).parts ELSE <<>>)
         \o (IF Head(cs).finish_reason # None THEN <<"Done">> ELSE <<>>)
         \o ExpectedTextAndDone(Tail(cs))

\* The Content and Done chunks of a chunk list: the text of a Content, "Done"
\* for a Done.
TextAndDone(chunks) ==
    LET IsTextOrDone(ch) == ch.kind \in {"Content", "Done"}
        sel == SelectSeq(chunks, IsTextOrDone)
    IN  [i \in 1..Len(sel) |-> IF sel[i].kind = "Content" THEN sel[i].text ELSE "Done"]

ScenarioB_Frames ==
    <<GeminiResponse(TRUE, TRUE, <<GeminiCandidate(TRUE, <<GeminiPart("Hel", None)>>, None)>>, None),
      GeminiResponse(TRUE, TRUE, <<GeminiCandidate(TRUE, <<GeminiPart("Hello", None)>>, "STOP")>>, None)>>

\* C19: Scenario B, a Generative-style stream of a frame with text "Hel" and
\* no finish reason and a frame with text "Hello" and finish reason STOP,
\* and whose byte stream does not fail, sends exactly Content("Hel"),
\* Content("Hello"), Done{Stop}; and every frame
\* sends one Content per non-empty text part in part order, followed by the
\* Done of its candidate if that has a finish reason.
C19_ScenarioB ==
    /\ []((provider = "gemini" /\ mode = "chat_stream" /\ frames = ScenarioB_Frames
             /\ stream # "error")
            => sent = <<Content("Hel"), Content("Hello"), Done("Stop")>>)
    /\ [][(provider = "gemini" /\ frames' # frames)
            => /\ SubSeq(sent', 1, Len(sent)) = sent
               /\ TextAndDone(SubSeq(sent', Len(sent) + 1, Len(sent')))
                    = ExpectedTextAndDone(FlatCandidates(<<Last(frames')>>))]_vars

C19_Witness ==
    /\ provider = "gemini" /\ frames = ScenarioB_Frames /\ stream = "ended"
    /\ sent = <<Content("Hel"), Content("Hello"), Done("Stop")>>


-----------------------------------------------------------------------------
(* The Anthropic-style stream seen from its frames                         *)

IsToolUseStart(ev) ==
    ev.valid /\ ev.event_type = "content_block_start" /\ ev.content_block = "tool_use"
IsPartialJson(ev) ==
    ev.valid /\ ev.event_type = "content_block_delta" /\ ev.delta = "input_json_delta"

\* The chunks a step added to sent.
NewChunks(before, after) == SubSeq(after, Len(before) + 1, Len(after))

\* The positions in evs of the tool-use block starts with index ix.
StartsAtIndex(evs, ix) ==
    {k \in DOMAIN evs : IsToolUseStart(evs[k]) /\ evs[k].index = ix}

\* C23: the Anthropic-style interpreter is keyed on the content-block index:
\* every ToolCallDelta sent for a content_block_delta event with index i
\* carries the id of the tool-use block the content_block_start event with
\* the same index i started.
C23_DeltaKeyedOnIndex ==
    [][(provider = "claude" /\ frames' # frames /\ IsPartialJson(Last(frames'))
        /\ Last(frames').index # NoIndex)
        => \A c \in DOMAIN NewChunks(sent, sent') :
              NewChunks(sent, sent')[c].kind = "ToolCallDelta" =>
                 \E k \in StartsAtIndex(frames, Last(frames').index) :
                    /\ \A j \in StartsAtIndex(frames, Last(frames').index) : j <= k
                    /\ NewChunks(sent, sent')[c].id = frames[k].id]_vars


IsBlockStop(ev) == ev.valid /\ ev.event_type = "content_block_stop"

\* No tool-use block is open after evs: there is no tool-use start, or a
\* content_block_stop came after the last one.
NoOpenToolBlock(evs) ==
    \A k \in DOMAIN evs :
        IsToolUseStart(evs[k]) => \E j \in DOMAIN evs : j > k /\ IsBlockStop(evs[j])

\* C24: in the Anthropic-style stream content_block_stop clears the active
\* tool id; after a content_block_stop and until the next tool-use
\* content_block_start a partial-JSON delta sends no ToolCallDelta; the active
\* id is set only by a tool-use content_block_start, which also sends the
\* ToolCallStart for that id.
C24_StopClearsActiveId ==
    [][(provider = "claude" /\ frames' # frames) =>
        /\ IsBlockStop(Last(frames')) => current_tool_id' = None
        /\ (IsPartialJson(Last(frames')) /\ NoOpenToolBlock(frames))
              => \A c \in DOMAIN NewChunks(sent, sent') :
                    NewChunks(sent, sent')[c].kind # "ToolCallDelta"
        /\ (current_tool_id' # None /\ current_tool_id' # current_tool_id)
              => /\ IsToolUseStart(Last(frames'))
                 /\ current_tool_id' = Last(frames').id
        /\ IsToolUseStart(Last(frames'))
              => /\ current_tool_id' = Last(frames').id
                 /\ Len(NewChunks(sent, sent')) = 1
                 /\ NewChunks(sent, sent')[1].kind = "ToolCallStart"
                 /\ NewChunks(sent, sent')[1].id = Last(frames').id]_vars

\* A tool-use block was started and stopped, and the partial-JSON delta that
\* came next sent nothing.
C24_Witness ==
    /\ provider = "claude" /\ Len(frames) = 3
    /\ IsToolUseStart(frames[1]) /\ IsBlockStop(frames[2]) /\ IsPartialJson(frames[3])
    /\ Len(sent) = 1 /\ sent[1].kind = "ToolCallStart"
    /\ current_tool_id = None


IsErrorEvent(ev) == ev.valid /\ ev.event_type = "error"

\* C25 as claimed: in the Anthropic-style stream every frame whose event type
\* is "error" sends exactly one Error chunk and ends the stream: the task
\* stops, and no later frame is interpreted or produces a chunk.
C25_ErrorFrameEndsStream ==
    /\ [][(provider = "claude" /\ frames' # frames /\ IsErrorEvent(Last(frames')))
            => /\ Len(NewChunks(sent, sent')) = 1
               /\ NewChunks(sent, sent')[1].kind = "Error"
               /\ task' = "ended"]_vars
    /\ [](provider = "claude" =>
            \A k \in DOMAIN frames : IsErrorEvent(frames[k]) => k = Len(frames))


\* The arguments of the function-call parts of the candidates, in order.
RECURSIVE FunctionCallArgs(_)
FunctionCallArgs(cs) ==
    IF cs = <<>> THEN <<>>
    ELSE LET ps == IF Head(cs).has_content THEN Head(cs).parts ELSE <<>>
             HasCall(p) == p.function_call # None
         IN  [i \in 1..Len(SelectSeq(ps, HasCall)) |-> SelectSeq(ps, HasCall)[i].args]
             \o FunctionCallArgs(Tail(cs))

\* C26: in the Generative-style stream every function-call part produces a
\* ToolCallStart immediately followed by exactly one ToolCallDelta with the
\* same id and the complete arguments: nothing is sent between the two and no
\* further ToolCallDelta is sent for that id.
C26_StartThenOneDelta ==
    provider = "gemini" =>
       LET starts == IndicesOf(sent, {"ToolCallStart"})
           deltas == IndicesOf(sent, {"ToolCallDelta"})
           args   == FunctionCallArgs(FlatCandidates(frames))
       IN  /\ Cardinality(starts) = Len(args)
           /\ \A i \in starts :
                 /\ i + 1 \in deltas
                 /\ sent[i + 1].id = sent[i].id
                 /\ sent[i + 1].text = args[Cardinality({j \in starts : j <= i})]
                 /\ \A j \in deltas : sent[j].id = sent[i].id => j = i + 1
           /\ \A j \in deltas : j - 1 \in starts

\* Two function-call parts in one stream, each sent as a start and its delta.
C26_Witness ==
    /\ provider = "gemini"
    /\ Len(FunctionCallArgs(FlatCandidates(frames))) >= 2
    /\ Len(sent) >= 4
    /\ sent[1].kind = "ToolCallStart" /\ sent[2].kind = "ToolCallDelta"
    /\ sent[2].id = sent[1].id


-----------------------------------------------------------------------------
(* SpecLines: the decoding of one event block into payloads                *)

\* claude.rs: for line in event.lines() { strip_prefix("data: ") .. from_str }
ClaudeDecodeBlock ==
    /\ mode = "lines" /\ provider = "claude" /\ ~parsed.done
    /\ parsed' = Parsed(TRUE, DataSpaceLines(event_block))
    /\ UNCHANGED <<callVars, stream, taskVars, sseVars, chanVars, reqVars, event_block, storeVars>>

\* gemini.rs: for line in event.lines() { strip_prefix("data: ") .. from_str }
GeminiDecodeBlock ==
    /\ mode = "lines" /\ provider = "gemini" /\ ~parsed.done
    /\ parsed' = Parsed(TRUE, DataSpaceLines(event_block))
    /\ UNCHANGED <<callVars, stream, taskVars, sseVars, chanVars, reqVars, event_block, storeVars>>

\* opencode.rs: data_str is built from the lines, then parsed unless blank
OcDecodeBlock ==
    /\ mode = "lines" /\ provider = "opencode" /\ ~parsed.done
    /\ parsed' = Parsed(TRUE, OcBlockPayloads(event_block))
    /\ UNCHANGED <<callVars, stream, taskVars, sseVars, chanVars, reqVars, event_block, storeVars>>

InitLines ==
    /\ provider \in Providers
    /\ mode = "lines"
    /\ pc = "returned"
    /\ http = SetupTrips(provider)
    /\ result = OkReceiver
    /\ chan = "open"
    /\ task = "running"
    /\ stream = "open"
    /\ session_id = IF provider = "opencode" THEN ActiveSession ELSE None
    /\ opencode_tools = IF provider = "opencode" THEN SomeTools({"bash"}) ELSE NoTools
    /\ frames = <<>>
    /\ sent = <<>>
    /\ current_tool_id = None
    /\ tool_call_index = 0
    /\ pending_tool_calls = <<>>
    /\ bytes = <<>>
    /\ delivered = 0
    /\ buffer = <<>>
    /\ decoded = <<>>
    /\ queue = <<>>
    /\ received = <<>>
    /\ rx = "held"
    /\ outbox = Step(<<>>, FALSE)
    /\ lost = <<>>
    /\ messages = TaskMessages
    /\ request = TaskRequest(provider)
    /\ event_block \in EventBlocks
    /\ parsed = Parsed(FALSE, <<>>)
    /\ StoreIdle

NextLines ==
    \/ ClaudeDecodeBlock
    \/ GeminiDecodeBlock
    \/ OcDecodeBlock

SpecLines == InitLines /\ [][NextLines]_vars

\* The payload the data lines of a block make up: for every line that starts
\* with the data marker, what follows the marker and one optional space, all
\* joined into one.
RECURSIVE JoinedPayload(_)
JoinedPayload(block) ==
    IF block = <<>> THEN <<>>
    ELSE LET line == Head(block)
             rest == IF Len(line) >= 2 /\ line[2] = " "
                     THEN SubSeq(line, 3, Len(line)) ELSE SubSeq(line, 2, Len(line))
         IN  (IF line # <<>> /\ line[1] = "data:" THEN rest ELSE <<>>)
             \o JoinedPayload(Tail(block))

\* C27 as claimed: in every adapter a line that begins with the data marker
\* is accepted with and without a following space, the data lines of one frame
\* are joined into one payload that is parsed once, and lines without the
\* marker contribute nothing.
C27_DataLinesJoined ==
    parsed.done =>
       /\ Len(parsed.payloads) <= 1
       /\ \A k \in DOMAIN parsed.payloads : parsed.payloads[k] = JoinedPayload(event_block)
       /\ Trim(JoinedPayload(event_block)) # <<>> => parsed.payloads # <<>>


\* The mapping of the vendor finish reason the claim states.
ClaimedGeminiFinishReason(reason) ==
    CASE reason = "STOP"       -> "Stop"
      [] reason = "MAX_TOKENS" -> "Length"
      [] reason = "SAFETY"     -> "ContentFilter"
      [] reason = "RECITATION" -> "ContentFilter"
      [] OTHER                 -> "Unknown"

\* C28 as claimed: in the streaming and the synchronous Generative-style
\* paths, when no tool call was produced the vendor finish reason is mapped
\* STOP to Stop, MAX_TOKENS to Length, SAFETY and RECITATION to ContentFilter,
\* and every other value to Unknown.
C28_FinishReasonMapping ==
    /\ provider = "gemini" =>
          LET cs == FlatCandidates(frames)
              Finishing(k) == cs[k].finish_reason # None
              ks == SelectSeq([k \in 1..Len(cs) |-> k], Finishing)
          IN  /\ Len(DoneReasons(sent)) = Len(ks)
              /\ \A i \in DOMAIN ks :
                    (\A j \in 1..ks[i] : ~HasFunctionCall(cs[j]))
                       => DoneReasons(sent)[i] = ClaimedGeminiFinishReason(cs[ks[i]].finish_reason)
    /\ \A r \in GeminiReplies :
          (GeminiChatResult(r).tag = "Ok" /\ GeminiChatResult(r).tool_calls = <<>>)
             => GeminiChatResult(r).finish_reason
                   = ClaimedGeminiFinishReason(Head(r.body.response.candidates).finish_reason)


-----------------------------------------------------------------------------
(* The local-orchestrator stream seen from its frames                      *)

\* The event of the frame the task took last is of the type.
OcTook(type) ==
    /\ provider = "opencode" /\ frames' # frames
    /\ Last(frames').valid /\ Last(frames').payload.type = type

\* C29: in the local-orchestrator stream a session-status event for the
\* active session with status idle sends exactly Done{Stop} and ends the task;
\* a session-error event for the active session sends exactly one Error chunk
\* and ends the task; a session-status event with another status, or for
\* another session, sends nothing and does not end the task.
C29_StatusAndErrorEvents ==
    [][LET p == Last(frames').payload
           new == NewChunks(sent, sent')
       IN  /\ (OcTook("session.status") /\ p.sid_props = session_id /\ p.status = "idle")
                 => new = <<Done("Stop")>> /\ task' = "ended"
           /\ (OcTook("session.error") /\ p.sid_props = session_id)
                 => Len(new) = 1 /\ new[1].kind = "Error" /\ task' = "ended"
           /\ (OcTook("session.status") /\ (p.sid_props # session_id \/ p.status # "idle"))
                 => new = <<>> /\ task' = "running"]_vars

\* A busy status of the active session was passed over, then its idle status
\* ended the stream with Done{Stop}.
C29_Witness ==
    /\ provider = "opencode" /\ Len(frames) = 2
    /\ frames[1] = OcFrame(TRUE, FALSE, OcStatus(ActiveSession, "busy"))
    /\ frames[2] = OcFrame(TRUE, FALSE, OcStatus(ActiveSession, "idle"))
    /\ sent = <<Done("Stop")>> /\ task = "ended"

\* C30 as claimed: an event with no extractable session id passes the session
\* filter, so a session-error event that carries no session id ends the
\* stream with an Error chunk.
C30_GlobalSessionError ==
    [][(OcTook("session.error") /\ OcEventSessionId(Last(frames').payload) = None)
          => /\ Len(NewChunks(sent, sent')) = 1
             /\ NewChunks(sent, sent')[1].kind = "Error"
             /\ task' = "ended"]_vars


-----------------------------------------------------------------------------
(* SpecStore: the commands on the chat history                             *)

\* A run of n sessions f1..fn, each newer than the one before.
Fill(n) == [k \in 1..n |-> SessionValue(<<"f" \o ToString(k)>>, 100 + k)]

SessionPool ==
    {SessionValue(<<"a">>, 1), SessionValue(<<"b">>, 2), SessionValue(<<>>, 4),
     SessionValue(<<"index">>, 5)}

\* How many sessions a short list has at most.
MaxTail == 2

\* The lists of sessions the model passes in: the short lists over the pool,
\* and lists of MAX_SESSIONS sessions and one more.
SaveInputs ==
    UNION {[1..m -> SessionPool] : m \in 0..MaxTail}
    \cup {Fill(MAX_SESSIONS), Fill(MAX_SESSIONS) \o <<SessionValue(<<"a">>, 1)>>,
          Fill(MAX_SESSIONS - 1) \o <<SessionValue(<<"a">>, 1), SessionValue(<<"b">>, 2)>>}

\* The chats directory with no file.
EmptyDir == [n \in FileNames |-> Absent]

\* What the chats directory and the legacy file hold before the first command.
PriorDirs ==
    {EmptyDir,
     [EmptyDir EXCEPT ![NotesFileName] = Garbage],
     [EmptyDir EXCEPT ![SessionFileName(<<"stale">>)] = SessionValue(<<"stale">>, 9)],
     [EmptyDir EXCEPT ![SessionFileName(<<"stale">>)] = SessionValue(<<"stale">>, 9),
                      ![SessionFileName(<<"a">>)] = Garbage,
                      ![SessionFileName(<<"b">>)] = SessionValue(<<"b">>, 9)],
     [EmptyDir EXCEPT ![ChatIndexFileName] = Garbage,
                      ![SessionFileName(<<"a">>)] = SessionValue(<<"a">>, 1)],
     [EmptyDir EXCEPT ![ChatIndexFileName] =
                          IndexValue(<<ChatIndexEntry(<<"a">>, 1), ChatIndexEntry(<<"b">>, 2)>>),
                      ![SessionFileName(<<"a">>)] = SessionValue(<<"a">>, 1),
                      ![SessionFileName(<<"stale">>)] = SessionValue(<<"stale">>, 9)]}

PriorLegacy ==
    {Absent, Garbage,
     ListValue(<<SessionValue(<<"legacy">>, 42)>>),
     ListValue(<<SessionValue(<<"a">>, 1), SessionValue(<<>>, 4), SessionValue(<<"b">>, 2)>>),
     ListValue(<<SessionValue(<<"index">>, 5)>>),
     ListValue(Fill(MAX_SESSIONS - 1) \o <<SessionValue(<<"a">>, 1), SessionValue(<<"b">>, 2)>>)}

\* set_chat_history / save_chat_history
SetChatHistory ==
    /\ mode = "store"
    /\ \E sessions \in SaveInputs :
          LET r == WriteSessionsAndIndex(chat_dir, sessions) IN
          /\ chat_dir' = r.dir
          /\ store_result' = r.result
          /\ store_call' = StoreCall("save", sessions)
    /\ UNCHANGED <<legacy_history, writers, licenseVars>>
    /\ UNCHANGED <<callVars, stream, taskVars, sseVars, chanVars, reqVars, lineVars>>

\* get_chat_history / load_chat_history
GetChatHistory ==
    /\ mode = "store"
    /\ \E r \in LoadChatHistoryFromPaths(chat_dir, legacy_history) :
          /\ chat_dir' = r.dir
          /\ legacy_history' = r.legacy
          /\ store_result' = r.result
    /\ store_call' = StoreCall("load", <<>>)
    /\ UNCHANGED <<writers, licenseVars>>
    /\ UNCHANGED <<callVars, stream, taskVars, sseVars, chanVars, reqVars, lineVars>>

InitStore ==
    /\ provider = None
    /\ mode = "store"
    /\ pc = "start"
    /\ http = <<>>
    /\ result = NoResult
    /\ chan = "none"
    /\ task = "none"
    /\ stream = "none"
    /\ session_id = None
    /\ opencode_tools = NoTools
    /\ frames = <<>>
    /\ sent = <<>>
    /\ current_tool_id = None
    /\ tool_call_index = 0
    /\ pending_tool_calls = <<>>
    /\ bytes = <<>>
    /\ delivered = 0
    /\ buffer = <<>>
    /\ decoded = <<>>
    /\ queue = <<>>
    /\ received = <<>>
    /\ rx = "none"
    /\ outbox = Step(<<>>, FALSE)
    /\ lost = <<>>
    /\ messages = <<>>
    /\ request = NoRequest
    /\ LinesIdle
    /\ chat_dir \in PriorDirs
    /\ legacy_history \in PriorLegacy
    /\ store_call = StoreCall("none", <<>>)
    /\ store_result = <<>>
    /\ writers = <<>>
    /\ LicenseIdle

NextStore ==
    \/ SetChatHistory
    \/ GetChatHistory

SpecStore == InitStore /\ [][NextStore]_vars


-----------------------------------------------------------------------------
(* The chat history seen from the sessions passed in and the files left    *)

\* The last MAX_SESSIONS sessions of a list.
LastSessions(sessions) ==
    [k \in 1..(IF Len(sessions) <= MAX_SESSIONS THEN Len(sessions) ELSE MAX_SESSIONS) |->
        sessions[k + (IF Len(sessions) <= MAX_SESSIONS THEN 0 ELSE Len(sessions) - MAX_SESSIONS)]]

\* The sessions of a list that have a valid id.
WithValidId(sessions) ==
    {sessions[k] : k \in {i \in DOMAIN sessions :
                            sessions[i].kind = "session" /\ IsValidChatId(sessions[i].id)}}

\* The directory holds exactly one session file for each of the sessions
\* (which have valid ids), no other session file, and an index that lists
\* exactly their ids by updatedAt descending.
HoldsExactly(dir, sessions) ==
    LET ids == {s.id : s \in sessions}
        index == dir[ChatIndexFileName]
    IN  /\ \A id \in ids :
              /\ dir[SessionFileName(id)] \in sessions
              /\ dir[SessionFileName(id)].id = id
        /\ \A n \in DirEntries(dir) :
              (EndsWithJson(n) /\ n # ChatIndexFileName) => StripJson(n) \in ids
        /\ ParsesAsIndex(index)
        /\ {index.items[k].id : k \in DOMAIN index.items} = ids
        /\ \A i, j \in DOMAIN index.items :
              i < j => index.items[i].updated_at >= index.items[j].updated_at

\* The step is a call of write_sessions_and_index through set_chat_history.
SaveStep == store_call'.op = "save" /\ <<chat_dir, store_call, store_result>>' # <<chat_dir, store_call, store_result>>

\* C21 as claimed: after write_sessions_and_index(sessions) succeeds, from any
\* prior content of the chats directory, the directory holds exactly one
\* <id>.json for each session with a valid id among the last 50 input
\* sessions, no other session file, and an index.json that lists exactly
\* those ids by updatedAt descending; the call returns the at most 50
\* retained sessions.
C21_WriteSessionsAndIndex ==
    [][SaveStep =>
        /\ HoldsExactly(chat_dir', WithValidId(LastSessions(store_call'.sessions)))
        /\ store_result' = LastSessions(store_call'.sessions)
        /\ Len(store_result') <= MAX_SESSIONS]_vars


\* The chats directory has no index.json and no session file, and the legacy
\* chat-history.json exists.
MigrationDue(dir, legacy) ==
    /\ dir[ChatIndexFileName] = Absent
    /\ \A n \in DirEntries(dir) : ~EndsWithJson(n)
    /\ legacy # Absent

\* The step is a call of load_chat_history_from_paths through get_chat_history.
LoadStep == store_call'.op = "load" /\ storeVars' # storeVars

\* C22 as claimed: a load with no index.json, no session file and an existing
\* legacy file migrates the legacy sessions into one file per session plus an
\* index, deletes the legacy file and returns the migrated sessions; when an
\* index or a session file exists already the legacy file is left untouched,
\* so that a second load migrates nothing.
C22_LegacyMigration ==
    [][LoadStep =>
        LET legacy_sessions ==
                IF legacy_history.kind = "list" THEN legacy_history.items ELSE <<>>
            migrated == WithValidId(LastSessions(legacy_sessions))
        IN  IF MigrationDue(chat_dir, legacy_history)
            THEN /\ HoldsExactly(chat_dir', migrated)
                 /\ legacy_history' = Absent
                 /\ {store_result'[k] : k \in DOMAIN store_result'} = migrated
            ELSE legacy_history' = legacy_history]_vars

-----------------------------------------------------------------------------
(* The part-updated events of the local-orchestrator stream                *)

\* The task took a part-updated event of the kind of part that got past the
\* session filter.
OcTookPart(part) ==
    /\ OcTook("message.part.updated")
    /\ Last(frames').payload.part = part
    /\ OcPassesFilter(OcEventSessionId(Last(frames').payload), session_id)

\* C31: in the local-orchestrator stream a part-updated event with a text
\* part emits a Content chunk if and only if the part is not synthetic and the
\* event carries a non-empty delta, and then the chunk's text is exactly that
\* delta; events without a delta emit nothing.
C31_TextPartContent ==
    [][OcTookPart("text") =>
          LET p == Last(frames').payload
          IN  /\ NewChunks(sent, sent') =
                    IF ~p.synthetic /\ p.delta # None /\ p.delta # ""
                    THEN <<Content(p.delta)>> ELSE <<>>
              /\ task' = "running"]_vars

\* A synthetic text part with a delta was passed over, then a text part with
\* a delta gave its Content chunk.
C31_Witness ==
    /\ provider = "opencode" /\ Len(frames) = 2
    /\ frames[1] = OcFrame(TRUE, FALSE, OcText(None, ActiveSession, None, TRUE, "a"))
    /\ frames[2] = OcFrame(TRUE, FALSE, OcText(None, ActiveSession, None, FALSE, "a"))
    /\ sent = <<Content("a")>>

\* C32: in the local-orchestrator stream a part-updated event with a tool
\* part emits ToolCallStart (and a ToolCallDelta when the input is non-empty
\* and not "{}") only when the part's status is pending or running; a tool
\* part with any other status emits no chunk.
C32_ToolPartStatus ==
    [][OcTookPart("tool") =>
          LET p == Last(frames').payload
          IN  /\ NewChunks(sent, sent') =
                    IF p.tool_status \in {"pending", "running"}
                    THEN <<ToolCallStart(p.call_id, p.tool)>> \o
                         (IF p.input # None /\ p.input # "{}"
                          THEN <<ToolCallDelta(p.call_id, p.input)>> ELSE <<>>)
                    ELSE <<>>
              /\ task' = "running"]_vars

\* A completed tool part was passed over, then a running one with input gave
\* its start and its delta.
C32_Witness ==
    /\ provider = "opencode" /\ Len(frames) = 2
    /\ frames[1] = OcFrame(TRUE, FALSE, OcTool(ActiveSession, "completed", "{\"sql\":\"1\"}"))
    /\ frames[2] = OcFrame(TRUE, FALSE, OcTool(ActiveSession, "running", "{\"sql\":\"1\"}"))
    /\ sent = <<ToolCallStart("call_a", "query"), ToolCallDelta("call_a", "{\"sql\":\"1\"}")>>

\* The ids of the ToolCallStart chunks sent, in order.
ToolCallStartIds(chunks) ==
    LET Starts(starts) == [k \in DOMAIN starts |-> starts[k].id]
    IN  Starts(SelectSeq(chunks, IsToolCallStart))

\* C36: in a local-orchestrator stream at most one ToolCallStart chunk is
\* emitted per tool call id, however many part-updated events arrive for that
\* tool part.
C36_OneStartPerCallId ==
    provider = "opencode" =>
        \A i, j \in DOMAIN ToolCallStartIds(sent) :
            ToolCallStartIds(sent)[i] = ToolCallStartIds(sent)[j] => i = j

-----------------------------------------------------------------------------
(* The end of the byte stream                                              *)

\* A Done or an Error chunk.
IsTerminalChunk(ch) == ch.kind \in {"Done", "Error"}

\* C33: when the vendor byte stream ends without any terminating event having
\* been decoded, the task ends without sending a Done or an Error chunk: the
\* consumer observes end-of-stream (closed channel) with no terminal chunk,
\* and the condition is not reported as an error.
C33_SilentEndOfStream ==
    [][(stream = "open" /\ stream' = "ended") =>
          /\ sent' = sent
          /\ task' = "ended" /\ chan' = "closed"
          /\ result' = OkReceiver
          /\ (SelectSeq(sent, IsTerminalChunk) = <<>>
                 => SelectSeq(sent', IsTerminalChunk) = <<>>)]_vars

\* The stream of an adapter ended after chunks of content and none that
\* ends the turn: the channel is closed and holds no Done and no Error.
C33_Witness ==
    /\ mode = "chat_stream" /\ stream = "ended" /\ task = "ended" /\ chan = "closed"
    /\ sent # <<>> /\ SelectSeq(sent, IsTerminalChunk) = <<>>

-----------------------------------------------------------------------------
(* SpecChanLive: the task, the channel and a consumer that keeps going     *)

\* The sends in flight complete and a handler that returns does return; the
\* consumer that holds the receiver keeps draining the channel; the byte
\* stream ends or fails to be read once the task waits for it.
SpecChanLive ==
    /\ SpecChan
    /\ WF_vars(ChanSend)
    /\ WF_vars(ChanReturn)
    /\ WF_vars(ConsumerRecv)
    /\ WF_vars(ChanStreamEnd \/ ChanReadError)

\* C34: each successful chat_stream call spawns exactly one background task,
\* and that task eventually terminates and closes the channel, releasing its
\* buffer and interpreter state, provided the byte stream eventually ends or
\* errors and the consumer either keeps draining the channel or drops the
\* receiver.
C34_TaskTerminates ==
    <>[](task = "ended" /\ chan = "closed" /\ outbox = Step(<<>>, FALSE))

\* The task has ended after the consumer received every chunk it sent.
C34_Witness ==
    /\ mode = "chan" /\ task = "ended" /\ chan = "closed"
    /\ Len(sent) >= 2 /\ received = sent /\ queue = <<>>

-----------------------------------------------------------------------------
(* What is left in the buffer when the byte stream ends                    *)

\* C37: when the byte stream ends, bytes left in the accumulation buffer that
\* are not terminated by a blank line are discarded: a final frame that is
\* complete except for its trailing blank line is never decoded and produces
\* no chunk, in all three adapters.
C37_UnterminatedFrameDiscarded ==
    [][(mode = "sse" /\ stream = "open" /\ stream' = "ended") =>
          /\ decoded' = decoded
          /\ sent' = sent
          /\ task' = "ended" /\ chan' = "closed"]_vars

\* The stream ended with a line and its line end in the buffer: the frame
\* lacks only the second line end and was not decoded.
C37_Witness ==
    /\ mode = "sse" /\ task = "ended" /\ stream = "ended"
    /\ buffer = <<"x", "\n">> /\ decoded = <<>> /\ sent = <<>>

-----------------------------------------------------------------------------
(* Saving the chat history and loading it again                            *)

\* At most MAX_SESSIONS sessions, each with a valid id, no id twice.
DistinctValidIds(sessions) ==
    /\ Len(sessions) <= MAX_SESSIONS
    /\ \A k \in DOMAIN sessions :
          sessions[k].kind = "session" /\ IsValidChatId(sessions[k].id)
    /\ \A i, j \in DOMAIN sessions : sessions[i].id = sessions[j].id => i = j

\* The list holds exactly the sessions, by updatedAt descending.
SameByUpdatedAtDesc(list, sessions) ==
    /\ Len(list) = Len(sessions)
    /\ {list[k] : k \in DOMAIN list} = {sessions[k] : k \in DOMAIN sessions}
    /\ \A i, j \in DOMAIN list :
          i < j => UpdatedAtOrDefault(list[i]) >= UpdatedAtOrDefault(list[j])

\* C39: for a list of at most 50 sessions with distinct valid ids, loading
\* the chat history right after write_sessions_and_index saved them returns
\* exactly those sessions ordered by updatedAt descending, and loading again
\* returns the same list and leaves the directory content unchanged.
C39_SaveThenLoad ==
    [][(LoadStep /\ store_call.op = "save" /\ DistinctValidIds(store_call.sessions)) =>
          /\ SameByUpdatedAtDesc(store_result', store_call.sessions)
          /\ \A again \in LoadChatHistoryFromPaths(chat_dir', legacy_history') :
                again.result = store_result' /\ again.dir = chat_dir']_vars

-----------------------------------------------------------------------------
(* SpecAtomic, SpecWriters: write_sessions_and_index step by step          *)

\* path.with_extension("json.tmp") of a .json path
TempFileName(file_name) == StripJson(file_name) \o <<".json.tmp">>

\* The files of the chats directory in the step-by-step model: the session
\* files of three ids, the index, their temp files, and a file of another kind.
StepFileNames ==
    LET json == {SessionFileName(<<t>>) : t \in {"a", "b", "stale"}} \cup {ChatIndexFileName}
    IN  json \cup {TempFileName(n) : n \in json} \cup {NotesFileName}

\* What the directory holds before the calls.
StepDirs ==
    LET empty == [n \in StepFileNames |-> Absent]
    IN  {empty,
         [empty EXCEPT ![SessionFileName(<<"a">>)] = SessionValue(<<"a">>, 0),
                       ![ChatIndexFileName] = IndexValue(<<ChatIndexEntry(<<"a">>, 0)>>)],
         [empty EXCEPT ![SessionFileName(<<"stale">>)] = SessionValue(<<"stale">>, 9),
                       ![NotesFileName] = Garbage]}

\* The lists of sessions passed to the calls.
StepInputs ==
    {<<SessionValue(<<"a">>, 1)>>, <<SessionValue(<<"b">>, 2)>>,
     <<SessionValue(<<"a">>, 1), SessionValue(<<>>, 4), SessionValue(<<"b">>, 2)>>}

\* The locals of one call of write_sessions_and_index and where it is:
\* session (head of the for loop), exists, remove, rename (inside
\* write_json_atomic, after the write of the temp file), clean (the
\* read_dir loop), done. k sessions of limited are behind it; path and bytes
\* are the arguments of the write_json_atomic under way, old is what path
\* held when it was called; alive is FALSE once the process was killed.
StartedWriter(sessions) ==
    [pc |-> "session", limited |-> LimitSessions(sessions), k |-> 0,
     seen_ids |-> {}, index_entries |-> <<>>,
     path |-> <<>>, bytes |-> Absent, old |-> Absent, writing_index |-> FALSE,
     entries |-> {}, alive |-> TRUE, result |-> "none"]

\* The call returns the error of a file operation (the ? operator).
Failed(wr) == [wr EXCEPT !.pc = "done", !.result = "err"]

\* The next session of the for loop that has an index entry, 0 if none has.
NextEntry(wr) ==
    LET rest == {k \in DOMAIN wr.limited : k > wr.k /\ HasIndexEntry(wr.limited[k])}
    IN  IF rest = {} THEN 0 ELSE CHOOSE k \in rest : \A j \in rest : k <= j

\* The entries of read_dir that the loop removes.
StaleEntries(wr) ==
    {n \in wr.entries :
        n # ChatIndexFileName /\ EndsWithJson(n) /\ StripJson(n) \notin wr.seen_ids}

Running(w) == writers[w].alive /\ writers[w].pc # "done"

\* for session in &limited: write_json_atomic(&session_path, ..) up to
\* tokio::fs::write(&temp_path, bytes)
WriterWriteSessionTemp ==
    /\ mode = "writers"
    /\ \E w \in DOMAIN writers :
          LET wr == writers[w]
              k == NextEntry(wr)
              path == SessionFileName(wr.limited[k].id)
          IN  /\ Running(w) /\ wr.pc = "session" /\ k # 0
              /\ chat_dir' = [chat_dir EXCEPT ![TempFileName(path)] = wr.limited[k]]
              /\ writers' = [writers EXCEPT ![w] =
                    [wr EXCEPT !.pc = "exists", !.k = k, !.path = path,
                               !.bytes = wr.limited[k], !.old = chat_dir[path]]]
    /\ UNCHANGED <<legacy_history, store_call, store_result, licenseVars>>
    /\ UNCHANGED <<callVars, stream, taskVars, sseVars, chanVars, reqVars, lineVars>>

\* if path.exists()
WriterExists ==
    /\ mode = "writers"
    /\ \E w \in DOMAIN writers :
          /\ Running(w) /\ writers[w].pc = "exists"
          /\ writers' = [writers EXCEPT ![w].pc =
                IF chat_dir[writers[w].path] # Absent THEN "remove" ELSE "rename"]
    /\ UNCHANGED <<chat_dir, legacy_history, store_call, store_result, licenseVars>>
    /\ UNCHANGED <<callVars, stream, taskVars, sseVars, chanVars, reqVars, lineVars>>

\* tokio::fs::remove_file(path): Err when the file is not there
WriterRemove ==
    /\ mode = "writers"
    /\ \E w \in DOMAIN writers :
          LET wr == writers[w] IN
          /\ Running(w) /\ wr.pc = "remove"
          /\ IF chat_dir[wr.path] = Absent
             THEN /\ writers' = [writers EXCEPT ![w] = Failed(wr)]
                  /\ chat_dir' = chat_dir
             ELSE /\ writers' = [writers EXCEPT ![w].pc = "rename"]
                  /\ chat_dir' = [chat_dir EXCEPT ![wr.path] = Absent]
    /\ UNCHANGED <<legacy_history, store_call, store_result, licenseVars>>
    /\ UNCHANGED <<callVars, stream, taskVars, sseVars, chanVars, reqVars, lineVars>>

\* tokio::fs::rename(&temp_path, path): Err when the temp file is not there.
\* After the write of a session its id is seen and its entry is pushed; after
\* the write of the index the call returns Ok(limited).
WriterRename ==
    /\ mode = "writers"
    /\ \E w \in DOMAIN writers :
          LET wr == writers[w]
              temp == TempFileName(wr.path)
          IN  /\ Running(w) /\ wr.pc = "rename"
              /\ IF chat_dir[temp] = Absent
                 THEN /\ writers' = [writers EXCEPT ![w] = Failed(wr)]
                      /\ chat_dir' = chat_dir
                 ELSE /\ chat_dir' = [chat_dir EXCEPT ![wr.path] = chat_dir[temp],
                                                      ![temp] = Absent]
                      /\ writers' = [writers EXCEPT ![w] =
                            IF wr.writing_index
                            THEN [wr EXCEPT !.pc = "done", !.result = "ok"]
                            ELSE [wr EXCEPT !.pc = "session",
                                            !.seen_ids = @ \cup {wr.limited[wr.k].id},
                                            !.index_entries =
                                                @ \o SessionToIndexEntry(wr.limited[wr.k])]]
    /\ UNCHANGED <<legacy_history, store_call, store_result, licenseVars>>
    /\ UNCHANGED <<callVars, stream, taskVars, sseVars, chanVars, reqVars, lineVars>>

\* tokio::fs::read_dir(&paths.chat_dir) after the for loop: the entries are
\* the files that exist now.
WriterReadDir ==
    /\ mode = "writers"
    /\ \E w \in DOMAIN writers :
          /\ Running(w) /\ writers[w].pc = "session" /\ NextEntry(writers[w]) = 0
          /\ writers' = [writers EXCEPT ![w].pc = "clean",
                                        ![w].k = Len(writers[w].limited),
                                        ![w].entries = DirEntries(chat_dir)]
    /\ UNCHANGED <<chat_dir, legacy_history, store_call, store_result, licenseVars>>
    /\ UNCHANGED <<callVars, stream, taskVars, sseVars, chanVars, reqVars, lineVars>>

\* while let Some(entry) = dir.next_entry(): tokio::fs::remove_file of the
\* next entry that is a session file of an id not seen; Err when the file is
\* not there any more.
WriterRemoveStale ==
    /\ mode = "writers"
    /\ \E w \in DOMAIN writers :
          LET wr == writers[w] IN
          /\ Running(w) /\ wr.pc = "clean"
          /\ \E n \in StaleEntries(wr) :
                IF chat_dir[n] = Absent
                THEN /\ writers' = [writers EXCEPT ![w] = Failed(wr)]
                     /\ chat_dir' = chat_dir
                ELSE /\ writers' = [writers EXCEPT ![w].entries = @ \ {n}]
                     /\ chat_dir' = [chat_dir EXCEPT ![n] = Absent]
    /\ UNCHANGED <<legacy_history, store_call, store_result, licenseVars>>
    /\ UNCHANGED <<callVars, stream, taskVars, sseVars, chanVars, reqVars, lineVars>>

\* After the read_dir loop: sort_index_desc, write_json_atomic(&paths.chat_index,
\* ..) up to tokio::fs::write(&temp_path, bytes)
WriterWriteIndexTemp ==
    /\ mode = "writers"
    /\ \E w \in DOMAIN writers :
          LET wr == writers[w]
              index == IndexValue(SortIndexDesc(wr.index_entries))
          IN  /\ Running(w) /\ wr.pc = "clean" /\ StaleEntries(wr) = {}
              /\ chat_dir' = [chat_dir EXCEPT ![TempFileName(ChatIndexFileName)] = index]
              /\ writers' = [writers EXCEPT ![w] =
                    [wr EXCEPT !.pc = "exists", !.path = ChatIndexFileName,
                               !.bytes = index, !.old = chat_dir[ChatIndexFileName],
                               !.writing_index = TRUE, !.entries = {}]]
    /\ UNCHANGED <<legacy_history, store_call, store_result, licenseVars>>
    /\ UNCHANGED <<callVars, stream, taskVars, sseVars, chanVars, reqVars, lineVars>>

\* The process is killed: no call takes another step.
WriterCrash ==
    /\ mode = "writers"
    /\ \E w \in DOMAIN writers : Running(w)
    /\ writers' = [w \in DOMAIN writers |-> [writers[w] EXCEPT !.alive = FALSE]]
    /\ UNCHANGED <<chat_dir, legacy_history, store_call, store_result, licenseVars>>
    /\ UNCHANGED <<callVars, stream, taskVars, sseVars, chanVars, reqVars, lineVars>>

NextWriters ==
    \/ WriterWriteSessionTemp
    \/ WriterExists
    \/ WriterRemove
    \/ WriterRename
    \/ WriterReadDir
    \/ WriterRemoveStale
    \/ WriterWriteIndexTemp
    \/ WriterCrash

\* What does not belong to the chat store.
InitNoStream ==
    /\ provider = None
    /\ mode = "writers"
    /\ pc = "start"
    /\ http = <<>>
    /\ result = NoResult
    /\ chan = "none"
    /\ task = "none"
    /\ stream = "none"
    /\ session_id = None
    /\ opencode_tools = NoTools
    /\ frames = <<>>
    /\ sent = <<>>
    /\ current_tool_id = None
    /\ tool_call_index = 0
    /\ pending_tool_calls = <<>>
    /\ bytes = <<>>
    /\ delivered = 0
    /\ buffer = <<>>
    /\ decoded = <<>>
    /\ queue = <<>>
    /\ received = <<>>
    /\ rx = "none"
    /\ outbox = Step(<<>>, FALSE)
    /\ lost = <<>>
    /\ messages = <<>>
    /\ request = NoRequest
    /\ LinesIdle
    /\ legacy_history = Absent
    /\ store_call = StoreCall("none", <<>>)
    /\ store_result = <<>>
    /\ LicenseIdle

\* One call of write_sessions_and_index on a directory.
InitAtomic ==
    /\ InitNoStream
    /\ chat_dir \in StepDirs
    /\ \E sessions \in StepInputs : writers = <<StartedWriter(sessions)>>

SpecAtomic == InitAtomic /\ [][NextWriters]_vars

\* Two set_chat_history commands at the same time on a directory.
InitWriters ==
    /\ InitNoStream
    /\ chat_dir \in StepDirs
    /\ \E s1, s2 \in StepInputs : writers = <<StartedWriter(s1), StartedWriter(s2)>>

SpecWriters == InitWriters /\ [][NextWriters]_vars

\* C35: write_json_atomic replaces a file atomically: at every intermediate
\* step of the operation, including a failure or crash between two of its
\* steps, the target path exists (if it existed before) and holds either its
\* complete previous content or the complete new content.
C35_AtomicReplace ==
    \A w \in DOMAIN writers :
        LET wr == writers[w] IN
        wr.pc \in {"exists", "remove", "rename"} =>
            /\ chat_dir[wr.path] \in {wr.old, wr.bytes}
            /\ (wr.old # Absent => chat_dir[wr.path] # Absent)

\* Both calls have returned Ok.
BothReturnedOk ==
    /\ mode = "writers" /\ Len(writers) = 2
    /\ \A w \in DOMAIN writers : writers[w].pc = "done" /\ writers[w].result = "ok"

\* C38: after any interleaving of two concurrent write_sessions_and_index
\* calls on the same chats directory has completed, every id listed in
\* index.json has its session file on disk, and the directory equals the
\* result of one of the two calls run alone.
C38_ConcurrentSaves ==
    BothReturnedOk =>
        /\ \A k \in DOMAIN chat_dir[ChatIndexFileName].items :
              chat_dir[SessionFileName(chat_dir[ChatIndexFileName].items[k].id)] # Absent
        /\ \E w \in DOMAIN writers :
              HoldsExactly(chat_dir, WithValidId(writers[w].limited))

-----------------------------------------------------------------------------
(* SpecLicense: the LicenseManager                                         *)

MAX_FREE_CONNECTIONS == 2

\* usize::MAX. The integers of the model end at 2^31 - 1; all that is used of
\* the value is that it is the largest one and is not MAX_FREE_CONNECTIONS.
UsizeMax == 2147483647

\* get_status(): LicenseStatus
GetStatus(state) ==
    [is_activated |-> state.is_activated,
     is_pro |-> state.is_pro,
     max_connections |-> IF state.is_pro THEN UsizeMax ELSE MAX_FREE_CONNECTIONS,
     device_name |-> state.device_name]

\* get_max_connections()
GetMaxConnections(state) ==
    IF state.is_pro /\ state.is_activated THEN UsizeMax ELSE MAX_FREE_CONNECTIONS

\* is_pro()
IsPro(state) == state.is_pro /\ state.is_activated

\* What a request to the license server can come to: the send fails, the
\* status is 401 or 403, the status is another one outside 2xx, the body does
\* not parse, or the body was parsed ("ok").
Outcomes == {"connect_error", "unauthorized", "server_error", "parse_error", "ok"}
ActivateBodies ==
    {[success |-> s, device |-> d] : s \in BOOLEAN, d \in {None, "token_1", "token_2"}}
VerifyBodies ==
    {[valid |-> v, active |-> a, is_pro |-> p] :
        v \in BOOLEAN, a \in BOOLEAN, p \in {"None", "true", "false"}}
DeactivateBodies == {[success |-> s] : s \in BOOLEAN}

\* save_state(): fs::write of the state to storage_path, which can fail
\* (the caller then returns the Err, the state in memory stays changed).
SaveState(state) ==
    \E written \in BOOLEAN : license_file' = IF written THEN state ELSE license_file

LicenseUnchanged ==
    UNCHANGED <<callVars, stream, taskVars, sseVars, chanVars, reqVars, lineVars,
                chat_dir, legacy_history, store_call, store_result, writers>>

\* get_default_device_name()
DefaultDeviceName == "hostname"

\* activate(license_key, device_name)
Activate ==
    /\ mode = "license"
    /\ \E license_key \in {"key_1", "key_2"}, device_name \in {None, "laptop"},
          outcome \in Outcomes, body \in ActivateBodies :
          IF outcome = "ok" /\ body.success /\ body.device # None
          THEN /\ license_state' =
                    LicenseState(license_key, body.device,
                                 IF device_name = None THEN DefaultDeviceName ELSE device_name,
                                 TRUE, TRUE)
               /\ SaveState(license_state')
          ELSE UNCHANGED licenseVars
    /\ LicenseUnchanged

\* verify()
Verify ==
    /\ mode = "license"
    /\ \E outcome \in Outcomes, body \in VerifyBodies :
          IF license_state.device_token = None THEN UNCHANGED licenseVars
          ELSE IF outcome = "unauthorized"
          THEN /\ license_state' = [license_state EXCEPT !.is_activated = FALSE,
                                                         !.is_pro = FALSE]
               /\ SaveState(license_state')
          ELSE IF outcome # "ok" THEN UNCHANGED licenseVars
          ELSE /\ license_state' =
                    [license_state EXCEPT
                        !.is_activated = body.valid /\ body.active,
                        !.is_pro = (body.is_pro = "true")]
               /\ SaveState(license_state')
    /\ LicenseUnchanged

\* deactivate(): the status of the response is not looked at
Deactivate ==
    /\ mode = "license"
    /\ \E outcome \in {"connect_error", "parse_error", "ok"}, body \in DeactivateBodies :
          IF license_state.device_token # None /\ outcome = "ok" /\ body.success
          THEN /\ license_state' = [license_state EXCEPT !.device_token = None,
                                                         !.is_activated = FALSE,
                                                         !.is_pro = FALSE]
               /\ SaveState(license_state')
          ELSE UNCHANGED licenseVars
    /\ LicenseUnchanged

\* clear()
Clear ==
    /\ mode = "license"
    /\ license_state' = LicenseStateDefault
    /\ SaveState(license_state')
    /\ LicenseUnchanged

\* LicenseManager::new().with_storage_path(path) with no file at the path
InitLicense ==
    /\ provider = None
    /\ mode = "license"
    /\ pc = "start"
    /\ http = <<>>
    /\ result = NoResult
    /\ chan = "none"
    /\ task = "none"
    /\ stream = "none"
    /\ session_id = None
    /\ opencode_tools = NoTools
    /\ frames = <<>>
    /\ sent = <<>>
    /\ current_tool_id = None
    /\ tool_call_index = 0
    /\ pending_tool_calls = <<>>
    /\ bytes = <<>>
    /\ delivered = 0
    /\ buffer = <<>>
    /\ decoded = <<>>
    /\ queue = <<>>
    /\ received = <<>>
    /\ rx = "none"
    /\ outbox = Step(<<>>, FALSE)
    /\ lost = <<>>
    /\ messages = <<>>
    /\ request = NoRequest
    /\ LinesIdle
    /\ StoreIdle

NextLicense ==
    \/ Activate
    \/ Verify
    \/ Deactivate
    \/ Clear

SpecLicense == InitLicense /\ [][NextLicense]_vars

\* C40: in every state of LicenseManager reachable through activate, verify,
\* deactivate and clear, the connection limit is reported consistently:
\* get_status().max_connections equals get_max_connections(), and both are
\* unlimited exactly when is_pro() returns true.
C40_ConsistentLimit ==
    mode = "license" =>
        /\ GetStatus(license_state).max_connections = GetMaxConnections(license_state)
        /\ (GetMaxConnections(license_state) = UsizeMax) = IsPro(license_state)
        /\ (GetStatus(license_state).max_connections = UsizeMax) = IsPro(license_state)

=============================================================================
